---- MODULE Spec2Model ----
(***************************************************************************)
(* A model of the constraint engine of the camera package                  *)
(* (bcsherma/camera): the propositional formula layer of camera/sat.py,    *)
(* the symmetrization graph of camera/network.py and the reducer of        *)
(* camera/symmetrize.py.                                                   *)
(*                                                                         *)
(* Signatures, methyls and NOEs are numbered in the order of the lists the *)
(* program keeps them in (the HMQC list, the structure's node list, the    *)
(* cross-peak list): 1..NSig, 1..NMeth, 1..NNoe.  networkx reports an edge *)
(* as (i, j) with i the endpoint that comes first in the node list, so an  *)
(* edge is the pair <<i, j>> with i < j.                                   *)
(***************************************************************************)
EXTENDS Integers, Sequences, FiniteSets, TLC

\* ------------------------------------------------------------------ bounds
NSig == 2
NMeth == 4
NNoe == 4

Sigs == 1..NSig
Methyls == 1..NMeth
Noes == 1..NNoe

\* ------------------------------------------------- program constants
ASG_VAR == 1
CST_VAR == 2
ACT_VAR == 3
CMD_VAR == 4
EDG_VAR == 5

\* camera/params.py, with the two radii the test-suite overrides
RADIUS == 10
ADDED_RADIUS == 10
SHORT_RADIUS == 8
MAX_COMP_SIZE == 3

\* Chemical shifts are counted in hundredths of a ppm: the symmetrization
\* tolerances of camera/params.py and the diagonal cut-offs of Noe.__init__
SYM_CTOL == 15
SYM_HTOL == 2
DIAG_CTOL == 10
DIAG_HTOL == 1
FORCE_ASG == FALSE
FORCE_SV == FALSE

VARIABLES
    signatures,   \* per signature: color, geminal (0: none), options, asg
    noes,         \* per NOE: clusters, short_range
    structure,    \* distances[0] of every pair of distinct methyls
    network,      \* the SymGraph: edge -> [active, dead]
    formula,      \* the Formula object under construction / being solved
    result,       \* what the last solve() returned (set of variable meanings)
    unfinished,   \* enumerate: the signatures still being enumerated
    support,      \* enumerate: the support sets found so far
    solve_calls,  \* how many times solve() has run
    components,   \* reducer: the components still to test in this pass
    unseen,       \* reducer: the edges of the tested component left to kill
    active_edges, \* reducer: active_edges and old_active_edges
    clean_edges,  \* clean_components: the edges still to test
    tested,       \* the network as the running test found it
    kill_log,     \* the reducer's kills: edge, network just before, tested
    iteration_no, \* reducer: the passes begun (0: not called yet)
    last_call,    \* the last public call made: its name and its argument
    rows,         \* the rows of the NOE file
    crosspeaks,   \* the Noe objects parse_noe_file has built from the rows
    row_idx,      \* parse_noe_file: the rows read so far
    no_diagonals, \* parse_noe_file: the diagonal rows counted so far
    graph_h,      \* gibbs_reduce: the signature graph, edge -> [short]
    unnailed,     \* gibbs_reduce: the vertices not nailed yet
    old_percent_nailed, \* gibbs_reduce: in units of 1/number_of_nodes
    tmp_files,    \* sample: the files under /tmp, as <<basename, extension>>
    basename,     \* sample: the last name uuid4 handed out (0: none yet)
    assignments,  \* sample: the assignments the last call returned
    clustering,   \* SignatureGraph: the clustering dictionary, NOE -> signature
    amo,          \* at_most_one: the length of lits, and the literals made true
    pc

inputs == <<signatures, noes, structure>>
enum == <<unfinished, support>>
reducer == <<components, unseen, active_edges, clean_edges, tested, kill_log,
             iteration_no>>
parse == <<rows, crosspeaks, row_idx, no_diagonals>>
gibbs == <<graph_h, unnailed, old_percent_nailed>>
sampler == <<tmp_files, basename, assignments>>
extra == <<sampler, clustering, amo>>
others == <<last_call, parse, gibbs, extra>>
vars == <<signatures, noes, structure, network, formula, result,
          unfinished, support, solve_calls, components, unseen, active_edges,
          clean_edges, tested, kill_log, iteration_no, last_call, rows,
          crosspeaks, row_idx, no_diagonals, graph_h, unnailed,
          old_percent_nailed, tmp_files, basename, assignments, clustering,
          amo, pc>>

\* ------------------------------------------------------------- helpers
Range(s) == {s[k] : k \in 1..Len(s)}

Abs(x) == IF x < 0 THEN -x ELSE x

RECURSIVE SetToSeq(_)
\* The elements of a set of integers in increasing order (list order).
SetToSeq(S) ==
    IF S = {} THEN <<>>
    ELSE LET x == CHOOSE y \in S : \A z \in S : y <= z
         IN <<x>> \o SetToSeq(S \ {x})

\* ---------------------------------------------------- camera/structures.py
\* The structure holds one geminal LEU pair (methyls 1 and 2 of residue 1);
\* every other methyl is an ALA of its own residue, the last one "added".
MethylColor(m) == IF m <= 2 THEN "L" ELSE "A"
MethylSeqid(m) == IF m <= 2 THEN 1 ELSE m - 1
MethylOrder(m) == IF m <= 2 THEN m ELSE 0
MethylAdded(m) == m = NMeth /\ m > 2

\* Methyl.geminal
MethylGeminal(m, other) ==
    MethylSeqid(m) = MethylSeqid(other) /\ MethylOrder(m) # MethylOrder(other)

\* structure[a][b]["distances"][0]
Distance(a, b) == IF a < b THEN structure[<<a, b>>] ELSE structure[<<b, a>>]

\* ---------------------------------------------------- camera/sat.py: Formula
\* Formula.__init__ (with the variable tables the two CSP constructors add;
\* an entry 0 of a table stands for "no such key").
NewFormula ==
    [nvars |-> 0, nclauses |-> 0, base_clauses |-> <<>>, aux_clauses |-> <<>>,
     variable_meaning |-> <<>>,
     assignment_variables |-> [s \in Sigs |-> [m \in Methyls |-> 0]],
     clustering_variables |-> [n \in Noes |-> [s \in Sigs |-> 0]],
     activation_variables |-> [n \in Noes |-> [k \in Noes |-> 0]]]

add_clause(f, lits) ==
    [f EXCEPT !.nclauses = @ + 1, !.base_clauses = Append(@, lits)]

add_aux_clause(f, lits) ==
    [f EXCEPT !.nclauses = @ + 1, !.aux_clauses = Append(@, lits)]

\* A faulty variant of flush: the base clauses go with the auxiliary ones
flush_all(f) ==
    [f EXCEPT !.nclauses = 0, !.base_clauses = <<>>, !.aux_clauses = <<>>]

\* A faulty variant of flush: the clause count is left as it was
flush_keeps_count(f) ==
    [f EXCEPT !.aux_clauses = <<>>]

flush(f) ==
    [f EXCEPT !.nclauses = @ - Len(f.aux_clauses), !.aux_clauses = <<>>]

\* next_variable, together with the variable_meaning entry every caller
\* writes for the variable it has just obtained; the new variable is .nvars
next_variable(f, meaning) ==
    [f EXCEPT !.nvars = @ + 1, !.variable_meaning = Append(@, meaning)]

RECURSIVE Fold(_, _, _)
\* A for loop over a list, threading the formula (or any accumulator); each
\* iteration's result is a value before the next iteration starts.
Fold(Body(_, _), acc0, list) ==
    IF list = <<>> THEN acc0
    ELSE CHOOSE r \in {Fold(Body, v, Tail(list)) :
                          v \in {Body(acc0, Head(list))}} : TRUE

RECURSIVE Filter(_, _)
\* A list comprehension with a condition
Filter(Test(_), list) ==
    IF list = <<>> THEN <<>>
    ELSE (IF Test(Head(list)) THEN <<Head(list)>> ELSE <<>>)
             \o Filter(Test, Tail(list))

RECURSIVE Combinations2(_, _, _)
\* itertools.combinations(lits, 2), in its order, from position (a, b) on
Combinations2(lits, a, b) ==
    IF a >= Len(lits) THEN <<>>
    ELSE IF b > Len(lits) THEN Combinations2(lits, a + 1, a + 2)
    ELSE << <<lits[a], lits[b]>> >> \o Combinations2(lits, a, b + 1)

\* A faulty variant of the pairwise encoding: only neighbours exclude each other
naive_at_most_one_neighbours(f, lits) ==
    Fold(LAMBDA g, k : add_clause(g, <<-lits[k], -lits[k + 1]>>), f,
         [k \in 1..(Len(lits) - 1) |-> k])

naive_at_most_one(f, lits) ==
    Fold(LAMBDA g, p : add_clause(g, <<-p[1], -p[2]>>), f,
         Combinations2(lits, 1, 2))

RECURSIVE at_most_one(_, _)
RECURSIVE CommanderGroups(_, _, _, _)
\* The while loop of at_most_one: one commander per group of three literals.
CommanderGroups(f, lits, idx, commanders) ==
    IF idx > Len(lits) THEN [f |-> f, commanders |-> commanders]
    ELSE LET last == IF idx + 2 < Len(lits) THEN idx + 2 ELSE Len(lits)
             group == SubSeq(lits, idx, last)
             f1 == next_variable(f, <<CMD_VAR, 0, 0>>)
             cmdr == f1.nvars
             f2 == add_clause(f1, <<-cmdr>> \o group)
             f3 == Fold(LAMBDA g, l : add_clause(g, <<cmdr, -l>>), f2, group)
             f4 == at_most_one(f3, group)
         IN CommanderGroups(f4, lits, idx + 3, Append(commanders, cmdr))

at_most_one(f, lits) ==
    IF Len(lits) < 4 THEN naive_at_most_one(f, lits)
    ELSE LET r == CommanderGroups(f, lits, 1, <<>>)
         IN at_most_one(r.f, r.commanders)

\* The domain of a signature in inject_vertices
Domain(s) ==
    IF FORCE_SV /\ signatures[s].options # {} THEN signatures[s].options
    ELSE IF FORCE_ASG /\ signatures[s].asg # {} THEN signatures[s].asg
    ELSE {m \in Methyls : MethylColor(m) \in signatures[s].color}

\* The keys of a table, in list order
Keys(table) == SetToSeq({k \in DOMAIN table : table[k] # 0})

\* The values of a table: [table[k] for k in table]
Lits(table) == LET ks == Keys(table) IN [x \in 1..Len(ks) |-> table[ks[x]]]

\* inject_vertices: the loop over the signatures ...
InjectSignature(f, s) ==
    LET f1 == Fold(LAMBDA g, m :
                     LET g1 == next_variable(g, <<ASG_VAR, s, m>>)
                     IN [g1 EXCEPT !.assignment_variables[s][m] = g1.nvars],
                   f, SetToSeq(Domain(s)))
        lits == Lits(f1.assignment_variables[s])
    IN add_clause(at_most_one(f1, lits), lits)

\* A faulty variant of the loop over the methyls: no clause at all
InjectMethylSkipped(f, sigs, m) == f

\* ... and the loop over the methyls
InjectMethyl(f, sigs, m) ==
    LET domain == Filter(LAMBDA s : f.assignment_variables[s][m] # 0, sigs)
    IN at_most_one(f, [x \in 1..Len(domain) |->
                          f.assignment_variables[domain[x]][m]])

inject_vertices(f, sigs, methyls) ==
    Fold(LAMBDA g, m : InjectMethyl(g, sigs, m),
         Fold(InjectSignature, f, sigs), methyls)

\* ------------------------------------------------- networkx graphs in use
\* A graph is [nodes, edges]; an edge is <<i, j>> with i before j.
Degree(g, n) == Cardinality({e \in g.edges : e[1] = n \/ e[2] = n})

Neighbors(g, n) ==
    {e[2] : e \in {d \in g.edges : d[1] = n}}
        \cup {e[1] : e \in {d \in g.edges : d[2] = n}}

RECURSIVE Reachable(_, _)
Reachable(g, S) ==
    LET T == S \cup UNION {Neighbors(g, n) : n \in S}
    IN IF T = S THEN S ELSE Reachable(g, T)

Subgraph(g, ns) ==
    [nodes |-> ns, edges |-> {e \in g.edges : e[1] \in ns /\ e[2] \in ns}]

RECURSIVE ComponentsFrom(_, _)
ComponentsFrom(g, left) ==
    IF left = {} THEN <<>>
    ELSE LET first == CHOOSE n \in left : \A k \in left : n <= k
             comp == Reachable(g, {first})
         IN <<Subgraph(g, comp)>> \o ComponentsFrom(g, left \ comp)

\* nx.connected_component_subgraphs: in the order of each one's first node
connected_component_subgraphs(g) == ComponentsFrom(g, g.nodes)

\* nx.is_matching on a set of edges of the graph: no node is used twice
is_matching(M) ==
    \A d, e \in M : d # e => {d[1], d[2]} \cap {e[1], e[2]} = {}

\* len(nx.max_weight_matching(g, maxcardinality=True)) (a set of edges)
MaxMatchingSize(g) ==
    LET sizes == {Cardinality(M) : M \in {X \in SUBSET g.edges : is_matching(X)}}
    IN CHOOSE k \in sizes : \A j \in sizes : j <= k

\* A proper 2-colouring exists (nx.bipartite.sets raises otherwise)
IsBipartite(g) ==
    \E X \in SUBSET g.nodes : \A e \in g.edges : (e[1] \in X) # (e[2] \in X)

\* nx.bipartite.sets of a connected graph: the side of its first node first
BipartiteSets(g) ==
    LET first == CHOOSE n \in g.nodes : \A k \in g.nodes : n <= k
        X == CHOOSE S \in SUBSET g.nodes :
                 first \in S /\ \A e \in g.edges : (e[1] \in S) # (e[2] \in S)
    IN <<X, g.nodes \ X>>

\* -------------------------------------------- camera/network.py: SymGraph
\* A faulty variant of living_graph: the dead edges are kept
living_graph_all(net) == [nodes |-> Noes, edges |-> DOMAIN net]

DropIsolated(g) == [g EXCEPT !.nodes = {n \in @ : Degree(g, n) > 0}]

\* A faulty variant of living_graph: the NOEs left without an edge are dropped
living_graph_dropped(net) ==
    DropIsolated([nodes |-> Noes, edges |-> {e \in DOMAIN net : ~net[e].dead}])

\* A copy of the graph (every NOE stays a node) without the dead edges
living_graph(net) ==
    [nodes |-> Noes, edges |-> {e \in DOMAIN net : ~net[e].dead}]

active_graph(net) ==
    DropIsolated([living_graph(net) EXCEPT
                    !.edges = {e \in @ : net[e].active}])

inactive_graph(net) ==
    DropIsolated([living_graph(net) EXCEPT
                    !.edges = {e \in @ : ~net[e].active}])

\* A faulty variant of has_edge: every pair passes for an edge
has_edge_any(net, e) == TRUE

\* self.has_edge(i, j), the test activate, deactivate and kill start with
has_edge(net, e) == e \in DOMAIN net

\* activate, deactivate and kill of an edge the graph has
activate(net, e) == [net EXCEPT ![e].active = TRUE]

deactivate(net, e) == [net EXCEPT ![e].active = FALSE]

kill(net, e) == [net EXCEPT ![e].dead = TRUE]

\* A faulty variant of set_activity_level: a component of exactly max_size
\* nodes is left inactive
set_activity_level_below(net, max_size) ==
    LET living == living_graph(net)
    IN [e \in DOMAIN net |->
          IF net[e].dead THEN net[e]
          ELSE [net[e] EXCEPT
                  !.active = Cardinality(Reachable(living, {e[1]})) < max_size]]

\* A faulty variant of set_activity_level: every living edge is deactivated
set_activity_level_off(net, max_size) ==
    [e \in DOMAIN net |->
       IF net[e].dead THEN net[e] ELSE [net[e] EXCEPT !.active = FALSE]]

\* set_activity_level: the edges of the living components of at most max_size
\* nodes become active, those of the larger ones inactive
set_activity_level(net, max_size) ==
    LET living == living_graph(net)
    IN [e \in DOMAIN net |->
          IF net[e].dead THEN net[e]
          ELSE [net[e] EXCEPT
                  !.active = Cardinality(Reachable(living, {e[1]})) <= max_size]]

\* ------------------------------------------- camera/sat.py: ClusteringCSP
RECURSIVE EdgeSeq(_)
\* graph.edges(): by first endpoint, then by second
EdgeSeq(E) ==
    IF E = {} THEN <<>>
    ELSE LET e == CHOOSE x \in E : \A y \in E :
                      x[1] < y[1] \/ (x[1] = y[1] /\ x[2] <= y[2])
         IN <<e>> \o EdgeSeq(E \ {e})

\* len(noe.clusters) and the clusters in list order
Clusters(n) == SetToSeq(noes[n].clusters)

\* A faulty variant of the per-NOE step: the variables without their clauses
ClusterNoeUnconstrained(f, n) ==
    IF Len(Clusters(n)) = 1 THEN f
    ELSE Fold(LAMBDA g, c :
                LET g1 == next_variable(g, <<CST_VAR, n, c>>)
                IN [g1 EXCEPT !.clustering_variables[n][c] = g1.nvars],
              f, Clusters(n))

\* create_clustering_variables: the body of the loop over the NOEs
ClusterNoe(f, n) ==
    IF Len(Clusters(n)) = 1 THEN f
    ELSE LET f1 == Fold(LAMBDA g, c :
                          LET g1 == next_variable(g, <<CST_VAR, n, c>>)
                          IN [g1 EXCEPT !.clustering_variables[n][c] = g1.nvars],
                        f, Clusters(n))
             lits == Lits(f1.clustering_variables[n])
         IN add_clause(at_most_one(f1, lits), lits)

create_clustering_variables(f, g) == Fold(ClusterNoe, f, SetToSeq(g.nodes))

create_activation_variables(f, g) ==
    Fold(LAMBDA h, e :
           IF Degree(g, e[1]) = 1 /\ Degree(g, e[2]) = 1 THEN h
           ELSE LET h1 == next_variable(h, <<ACT_VAR, e[1], e[2]>>)
                IN [h1 EXCEPT !.activation_variables[e[1]][e[2]] = h1.nvars,
                              !.activation_variables[e[2]][e[1]] = h1.nvars],
         f, EdgeSeq(g.edges))

\* left, right of a component: the smaller side of the bipartition is left
LeftRight(c) ==
    LET lr == BipartiteSets(c)
    IN IF Cardinality(lr[1]) > Cardinality(lr[2]) THEN <<lr[2], lr[1]>> ELSE lr

\* respect_matching raises for this component (nx.bipartite.sets on a graph
\* that is not bipartite, or the assert on the matching size)
MatchingRaises(c) ==
    /\ Cardinality(c.nodes) >= 3
    /\ \/ ~IsBipartite(c)
       \/ MaxMatchingSize(c) # Cardinality(LeftRight(c)[1])

\* A faulty variant of the per-component step: no clause at all
RespectComponentSkipped(f, c) == f

\* respect_matching: the body of the loop over the components
RespectComponent(f, c) ==
    IF Cardinality(c.nodes) < 3 THEN f
    ELSE LET lr == LeftRight(c)
             f1 == Fold(LAMBDA h, l :
                          LET lits == Lits(h.activation_variables[l])
                          IN add_clause(at_most_one(h, lits), lits),
                        f, SetToSeq(lr[1]))
         IN Fold(LAMBDA h, r : at_most_one(h, Lits(h.activation_variables[r])),
                 f1, SetToSeq(lr[2]))

respect_matching(f, g) ==
    Fold(RespectComponent, f, connected_component_subgraphs(g))

\* The radius ladder of respect_distance_constraint
WithinRadius(short, a, b) ==
    IF short THEN Distance(a, b) < SHORT_RADIUS
    ELSE IF MethylAdded(a) \/ MethylAdded(b) THEN Distance(a, b) < ADDED_RADIUS
    ELSE Distance(a, b) < RADIUS

respect_distance_constraint(f, alpha, beta, base_clause, short) ==
    Fold(LAMBDA h, am :
           LET ok == Filter(LAMBDA bm : bm # am /\ WithinRadius(short, am, bm),
                            Keys(h.assignment_variables[beta]))
           IN add_clause(h, base_clause
                            \o <<-h.assignment_variables[alpha][am]>>
                            \o [x \in 1..Len(ok) |->
                                  h.assignment_variables[beta][ok[x]]]),
         f, Keys(f.assignment_variables[alpha]))

\* itertools.product of two lists
Product(A, B) ==
    [x \in 1..(Len(A) * Len(B)) |->
        <<A[((x - 1) \div Len(B)) + 1], B[((x - 1) % Len(B)) + 1]>>]

\* The short flag distance_constraints uses for the edge (i, j)
EdgeShort(i, j) == noes[i].short_range

DistanceEdge(f, g, e) ==
    LET i == e[1]
        j == e[2]
    IN Fold(LAMBDA h, cc :
              IF cc[1] = cc[2] THEN h
              ELSE respect_distance_constraint(h, cc[1], cc[2],
                     (IF Degree(g, i) > 1 \/ Degree(g, j) > 1
                      THEN <<-h.activation_variables[i][j]>> ELSE <<>>)
                     \o (IF Len(Clusters(i)) > 1
                         THEN <<-h.clustering_variables[i][cc[1]]>> ELSE <<>>)
                     \o (IF Len(Clusters(j)) > 1
                         THEN <<-h.clustering_variables[j][cc[2]]>> ELSE <<>>),
                     EdgeShort(i, j)),
            f, Product(Clusters(i), Clusters(j)))

distance_constraints(f, g) ==
    Fold(LAMBDA h, e : DistanceEdge(h, g, e), f, EdgeSeq(g.edges))

\* A faulty variant of the per-signature step: no clause at all
GeminalPairSkipped(f, i) == f

\* geminal_constraints: the body of the loop over the signatures
GeminalPair(f, i) ==
    LET j == signatures[i].geminal
    IN Fold(LAMBDA h, im :
              LET ok == Filter(LAMBDA jm : MethylGeminal(im, jm),
                               Keys(h.assignment_variables[j]))
              IN add_clause(h, <<-h.assignment_variables[i][im]>>
                               \o [x \in 1..Len(ok) |->
                                     h.assignment_variables[j][ok[x]]]),
            f, Keys(f.assignment_variables[i]))

geminal_constraints(f, sigs) ==
    Fold(GeminalPair, f, Filter(LAMBDA i : signatures[i].geminal # 0, sigs))

\* ClusteringCSP.__init__ raises instead of returning a formula
ClusteringCSPRaises(net) ==
    LET comps == connected_component_subgraphs(active_graph(net))
    IN \E k \in 1..Len(comps) : MatchingRaises(comps[k])

\* ClusteringCSP.__init__
ClusteringCSP(sigs, net) ==
    LET g == active_graph(net)
        f1 == inject_vertices(NewFormula, sigs, SetToSeq(Methyls))
        f2 == create_clustering_variables(f1, g)
        f3 == create_activation_variables(f2, g)
        f4 == respect_matching(f3, g)
        f5 == distance_constraints(f4, g)
    IN geminal_constraints(f5, sigs)

\* clause_to_string: the literals, then the closing 0, on one line
clause_to_string(clause) == clause \o <<0>>

\* to_string: the header "p cnf nvars nclauses" and one line per clause of
\* base_clauses + aux_clauses
to_string(f) ==
    LET all == f.base_clauses \o f.aux_clauses
    IN [header |-> <<"p", "cnf", f.nvars, f.nclauses>>,
        body |-> [x \in 1..Len(all) |-> clause_to_string(all[x])]]

\* ------------------------------------------------ the external SAT solver
\* The clauses to_string writes: base_clauses + aux_clauses, each as the set
\* of its literals.
ClauseSet(f) == {Range(c) : c \in Range(f.base_clauses \o f.aux_clauses)}

\* The clauses left once literal l is made true
Assign(cls, l) == {c \ {-l} : c \in {d \in cls : l \notin d}}

RECURSIVE Models(_, _, _)
\* Every total assignment (the set of its true variables) that extends T over
\* the variables free and satisfies cls: unit propagation and splitting.
Models(cls, free, T) ==
    IF {} \in cls THEN {}
    ELSE IF cls = {} THEN {T \cup X : X \in SUBSET free}
    ELSE LET units == {c \in cls : Cardinality(c) = 1}
             c0 == IF units # {} THEN CHOOSE c \in units : TRUE
                   ELSE CHOOSE c \in cls : TRUE
             l == CHOOSE x \in c0 : TRUE
             v == Abs(l)
             pos == Models(Assign(cls, v), free \ {v}, T \cup {v})
             neg == Models(Assign(cls, -v), free \ {v}, T)
         IN IF units # {} THEN (IF l > 0 THEN pos ELSE neg)
            ELSE pos \cup neg

SatisfyingAssignments(f) == Models(ClauseSet(f), 1..f.nvars, {})

\* Formula.solve: the meanings of the variables the solver's model sets true,
\* for any model the solver may return; nothing when it reports UNSAT.
solve(f) ==
    LET models == SatisfyingAssignments(f)
    IN IF models = {} THEN {{}}
       ELSE {{f.variable_meaning[a] : a \in T} : T \in models}

\* ------------------------------------------------------------------ inputs
ColorSets == {{"L"}, {"A"}, {"L", "A"}}

\* Geminal back-pointers as parse_hmqc_file sets them: mutual, or none
GeminalMaps ==
    {[s \in Sigs |-> 0]}
        \cup {[s \in Sigs |-> IF s = 1 THEN 2 ELSE IF s = 2 THEN 1 ELSE 0]}

SignatureInputs ==
    {[s \in Sigs |-> [color |-> col[s], geminal |-> gem[s],
                      options |-> {}, asg |-> {}]] :
        col \in [Sigs -> ColorSets], gem \in GeminalMaps}

\* The methyls on a line, neighbours gap apart
StructureInputs ==
    {[p \in {q \in Methyls \X Methyls : q[1] < q[2]} |-> gap * (p[2] - p[1])] :
        gap \in {4, 5, 9}}

AllEdges == {e \in Noes \X Noes : e[1] < e[2]}

\* The symmetrization graphs: NOEs paired along a chain, and a triangle
Chain == {e \in AllEdges : e[2] = e[1] + 1}
GraphInputs == (SUBSET Chain) \cup {{<<1, 2>>, <<1, 3>>, <<2, 3>>}}

\* NOEs that are clustered (the callers drop the others); an NOE outside the
\* symmetrization graph's edges is never read, and gets one fixed value
NoeInputs(E) ==
    {n \in [Noes -> [clusters : (SUBSET Sigs) \ {{}}, short_range : BOOLEAN]] :
        /\ \A k \in Noes : (\A e \in E : k \notin {e[1], e[2]})
              => n[k] = [clusters |-> {1}, short_range |-> FALSE]
        /\ Cardinality({k \in Noes : n[k].short_range}) <= 1
        /\ \A k \in Noes : n[k].short_range => k <= 2}

\* The reducer's inputs: one signature per color, NOEs that alternate
\* between the two signatures or are ambiguous, graphs of one component
SymSignatureInputs ==
    {[s \in Sigs |-> [color |-> IF s = 1 THEN {"L"} ELSE {"A"}, geminal |-> 0,
                      options |-> {}, asg |-> {}]]}

SymGraphInputs == {Chain, {<<1, 2>>, <<2, 3>>}, {<<1, 2>>, <<1, 3>>, <<2, 3>>}}

SymNoeInputs ==
    {[n \in Noes |-> [clusters |-> IF n = amb THEN Sigs
                                   ELSE IF n % 2 = 1 THEN {1} ELSE {2},
                      short_range |-> n = short]] :
        amb \in 0..1, short \in 0..2}

TypeOK ==
    /\ pc \in {"start", "built", "raised", "solved", "enumerating", "returned",
               "pass", "component", "killing", "cleaning", "reduced",
               "reading", "parsed", "linked", "graph", "formula", "sampling",
               "sampler", "spur", "signature_graph", "lits", "encoded"}
    /\ DOMAIN network \subseteq AllEdges
    /\ unfinished \subseteq Sigs
    /\ support \in [Sigs -> SUBSET Methyls]
    /\ solve_calls \in Nat
    /\ iteration_no \in Nat

\* No call has been made yet
NoCall == [op |-> "none", arg |-> 0]

\* No NOE file is being read
ParseIdle ==
    /\ rows = <<>>
    /\ crosspeaks = <<>>
    /\ row_idx = 0
    /\ no_diagonals = 0

\* Nothing has run yet
InitCore ==
    /\ formula = NewFormula
    /\ result = {}
    /\ unfinished = {}
    /\ support = [s \in Sigs |-> {}]
    /\ solve_calls = 0
    /\ components = <<>>
    /\ unseen = {}
    /\ active_edges = [now |-> 0, old |-> 0]
    /\ clean_edges = <<>>
    /\ tested = <<>>
    /\ kill_log = {}
    /\ iteration_no = 0
    /\ last_call = NoCall

\* gibbs_reduce is not running
GibbsIdle ==
    /\ graph_h = <<>>
    /\ unnailed = {}
    /\ old_percent_nailed = 0

\* sample has not been called
SamplerIdle ==
    /\ tmp_files = {}
    /\ basename = 0
    /\ assignments = <<>>

\* Nothing of what the later sections add is in use
ExtraIdle ==
    /\ SamplerIdle
    /\ clustering = <<>>
    /\ amo = [n |-> 0, true |-> {}]

InitLocals == InitCore /\ ParseIdle /\ GibbsIdle /\ ExtraIdle /\ pc = "start"

\* ------------------------------------------- building and solving a CSP
InitCSP ==
    /\ signatures \in SignatureInputs
    /\ structure \in StructureInputs
    /\ \E E \in GraphInputs :
          /\ noes \in NoeInputs(E)
          /\ network = [e \in E |-> [active |-> TRUE, dead |-> FALSE]]
    /\ InitLocals

SigList == SetToSeq(Sigs)

Construct ==
    /\ pc = "start"
    /\ IF ClusteringCSPRaises(network)
       THEN /\ pc' = "raised"
            /\ UNCHANGED formula
       ELSE /\ pc' = "built"
            /\ formula' = ClusteringCSP(SigList, network)
    /\ UNCHANGED <<inputs, others, network, result, enum, solve_calls, reducer>>

Solve ==
    /\ pc = "built"
    /\ result' \in solve(formula)
    /\ solve_calls' = solve_calls + 1
    /\ pc' = "solved"
    /\ UNCHANGED <<inputs, others, network, formula, enum, reducer>>

NextCSP == Construct \/ Solve

SpecCSP == InitCSP /\ [][NextCSP]_vars

\* --------------------------------------- camera/sat.py: Formula.enumerate
\* A faulty variant of the aux clauses: nothing is forbidden
ForbidSeenSkipped(f, focus, sup) == f

\* "for seen in support[focus]: add_aux_clause([-asgvar[focus][seen]])"
ForbidSeen(f, focus, sup) ==
    Fold(LAMBDA g, seen : add_aux_clause(g, <<-g.assignment_variables[focus][seen]>>),
         f, SetToSeq(sup[focus]))

\* A faulty variant of the update: every variable type is taken for ASG_VAR
UpdateSupportAnyType(sup, res) ==
    [s \in Sigs |-> sup[s] \cup {t[3] : t \in {u \in res : u[2] = s}}]

\* "for vtype, alpha, beta in result: if vtype == ASG_VAR: support[alpha].add(beta)"
UpdateSupport(sup, res) ==
    [s \in Sigs |->
        sup[s] \cup {t[3] : t \in {u \in res : u[1] = ASG_VAR /\ u[2] = s}}]

\* A faulty variant of the locking clause: the vertex is locked to nothing
LockClauseEmpty(f, focus, sup) == <<>>

\* The clause that locks a finished vertex to its known assignments
LockClause(f, focus, sup) ==
    LET seen == SetToSeq(sup[focus])
    IN [x \in 1..Len(seen) |-> f.assignment_variables[focus][seen[x]]]

\* The bound on the solve() calls of one enumeration
SolveBound ==
    Cardinality(Sigs) + Cardinality({p \in Sigs \X Methyls : p[2] \in Domain(p[1])})

\* enumerate, up to the loop
EnumerateBegin ==
    /\ pc = "built"
    /\ unfinished' = Sigs
    /\ support' = [s \in Sigs |-> {}]
    /\ solve_calls' = 0
    /\ pc' = "enumerating"
    /\ UNCHANGED <<inputs, others, network, formula, result, reducer>>

\* One iteration of the loop on a vertex picked from unfinished; the guard on
\* solve_calls only keeps the count finite one step past its bound
EnumerateStep ==
    /\ pc = "enumerating"
    /\ unfinished # {}
    /\ solve_calls <= SolveBound
    /\ \E focus \in unfinished :
          LET f1 == ForbidSeen(formula, focus, support)
          IN \E res \in solve(f1) :
                /\ result' = res
                /\ IF res # {}
                   THEN /\ support' = UpdateSupport(support, res)
                        /\ formula' = flush(f1)
                        /\ UNCHANGED unfinished
                   ELSE /\ unfinished' = unfinished \ {focus}
                        /\ formula' = add_clause(flush(f1),
                                                  LockClause(f1, focus, support))
                        /\ UNCHANGED support
    /\ solve_calls' = solve_calls + 1
    /\ UNCHANGED <<inputs, others, network, reducer, pc>>

\* "if len(unfinished) == 0: return support"
EnumerateReturn ==
    /\ pc = "enumerating"
    /\ unfinished = {}
    /\ pc' = "returned"
    /\ UNCHANGED <<inputs, others, network, formula, result, enum, solve_calls, reducer>>

\* The formulas enumerated: one symmetrization edge between NOE 1 and NOE 2
InitEnum ==
    /\ signatures \in SignatureInputs
    /\ structure \in StructureInputs
    /\ \E c \in (SUBSET Sigs) \ {{}} :
          noes = [n \in Noes |-> [clusters |-> IF n = 2 THEN c ELSE {1},
                                  short_range |-> FALSE]]
    /\ network = [e \in {<<1, 2>>} |-> [active |-> TRUE, dead |-> FALSE]]
    /\ InitLocals

NextEnum == Construct \/ EnumerateBegin \/ EnumerateStep \/ EnumerateReturn

SpecEnum == InitEnum /\ [][NextEnum]_vars

\* The program keeps running: a step that can be taken is taken.  This is
\* WF_vars(NextEnum) with its ENABLED written out: a step can be taken, and
\* changes the state, exactly while pc is "start", "built" or "enumerating".
EnumFair ==
    \/ []<>(pc \notin {"start", "built", "enumerating"})
    \/ []<><<TRUE>>_vars

SpecEnumLive == SpecEnum /\ EnumFair

\* -------------------------------------------------- camera/symmetrize.py
RECURSIVE Combinations(_, _)
\* itertools.combinations(list, k), in its order
Combinations(list, k) ==
    IF k = 0 THEN << <<>> >>
    ELSE IF Len(list) < k THEN <<>>
    ELSE LET with == Combinations(Tail(list), k - 1)
         IN [x \in 1..Len(with) |-> <<Head(list)>> \o with[x]]
                \o Combinations(Tail(list), k)

\* max_matchings: the matchings of maximum cardinality, as sets of edges
max_matchings(g) ==
    LET all == Combinations(EdgeSeq(g.edges), MaxMatchingSize(g))
        sets == [x \in 1..Len(all) |-> Range(all[x])]
    IN Filter(is_matching, sets)

\* A faulty variant of checksat: every matching is reported unsatisfiable
checksatNever(net) == FALSE

\* checksat: the clustering CSP of the network has a model
checksat(net) == \E r \in solve(ClusteringCSP(SigList, net)) : r # {}

\* A faulty variant of the trial: the matching is left activated
TestMatchingLeftActive(acc, M) ==
    IF acc.raised THEN acc
    ELSE LET on == Fold(activate, acc.net, EdgeSeq(M))
         IN IF ClusteringCSPRaises(on)
            THEN [acc EXCEPT !.net = on, !.raised = TRUE]
            ELSE [acc EXCEPT
                    !.unseen = IF checksat(on) THEN @ \ M ELSE @,
                    !.net = on]

\* One matching of test_component: activate, test, deactivate; a constructor
\* that raises leaves the matching activated
TestMatching(acc, M) ==
    IF acc.raised THEN acc
    ELSE LET on == Fold(activate, acc.net, EdgeSeq(M))
         IN IF ClusteringCSPRaises(on)
            THEN [acc EXCEPT !.net = on, !.raised = TRUE]
            ELSE [acc EXCEPT
                    !.unseen = IF checksat(on) THEN @ \ M ELSE @,
                    !.net = Fold(deactivate, on, EdgeSeq(M))]

\* test_component: the edges in no satisfiable maximum matching
test_component(component, net) ==
    Fold(TestMatching,
         [unseen |-> component.edges, net |-> net, raised |-> FALSE],
         max_matchings(component))

RECURSIVE SortBySize(_)
\* sorted(components, key=number_of_nodes): a stable sort
SortBySize(list) ==
    IF list = <<>> THEN <<>>
    ELSE LET least == CHOOSE k \in 1..Len(list) :
                        /\ \A j \in 1..Len(list) :
                              Cardinality(list[k].nodes) <= Cardinality(list[j].nodes)
                        /\ \A j \in 1..(k - 1) :
                              Cardinality(list[j].nodes) > Cardinality(list[k].nodes)
         IN <<list[least]>>
                \o SortBySize([x \in 1..(Len(list) - 1) |->
                                 IF x < least THEN list[x] ELSE list[x + 1]])

\* len(network.active_graph().edges())
ActiveEdges(net) == Cardinality(active_graph(net).edges)

\* The SymGraph methods, called on any pair of NOEs before the reducer runs
Activate ==
    /\ pc = "start"
    /\ \E e \in AllEdges :
          /\ last_call' = [op |-> "activate", arg |-> e]
          /\ IF has_edge(network, e)
             THEN network' = activate(network, e) /\ UNCHANGED pc
             ELSE pc' = "raised" /\ UNCHANGED network
    /\ UNCHANGED <<inputs, parse, gibbs, extra, formula, result, enum, solve_calls, reducer>>

Deactivate ==
    /\ pc = "start"
    /\ \E e \in AllEdges :
          /\ last_call' = [op |-> "deactivate", arg |-> e]
          /\ IF has_edge(network, e)
             THEN network' = deactivate(network, e) /\ UNCHANGED pc
             ELSE pc' = "raised" /\ UNCHANGED network
    /\ UNCHANGED <<inputs, parse, gibbs, extra, formula, result, enum, solve_calls, reducer>>

Kill ==
    /\ pc = "start"
    /\ \E e \in AllEdges :
          /\ last_call' = [op |-> "kill", arg |-> e]
          /\ IF has_edge(network, e)
             THEN network' = kill(network, e) /\ UNCHANGED pc
             ELSE pc' = "raised" /\ UNCHANGED network
    /\ UNCHANGED <<inputs, parse, gibbs, extra, formula, result, enum, solve_calls, reducer>>

SetActivityLevel ==
    /\ pc = "start"
    /\ \E max_size \in 1..NNoe :
          /\ last_call' = [op |-> "set_activity_level", arg |-> max_size]
          /\ network' = set_activity_level(network, max_size)
    /\ UNCHANGED <<inputs, parse, gibbs, extra, formula, result, enum, solve_calls, reducer, pc>>

\* reduce_symmetrization_graph, up to the outer loop
ReduceBegin ==
    /\ pc = "start"
    /\ active_edges' = [now |-> ActiveEdges(network), old |-> 0]
    /\ iteration_no' = 1
    /\ last_call' = [op |-> "reduce_symmetrization_graph", arg |-> network]
    /\ pc' = "pass"
    /\ UNCHANGED <<inputs, parse, gibbs, extra, network, formula, result, enum, solve_calls,
                   components, unseen, clean_edges, tested, kill_log>>

\* The head of the outer loop: the inactive components, smallest first
PassBegin ==
    /\ pc = "pass"
    /\ components' =
          SortBySize(connected_component_subgraphs(inactive_graph(network)))
    /\ pc' = "component"
    /\ UNCHANGED <<inputs, others, network, formula, result, enum, solve_calls,
                   unseen, active_edges, clean_edges, tested, kill_log,
                   iteration_no>>

\* One component of the pass: test_component and, with edges to delete, the
\* assignment of old_active_edges
TestComponent ==
    /\ pc = "component"
    /\ components # <<>>
    /\ LET t == test_component(Head(components), network)
       IN /\ network' = t.net
          /\ tested' = network
          /\ IF t.raised
             THEN /\ pc' = "raised"
                  /\ UNCHANGED <<components, unseen, active_edges>>
             ELSE /\ components' = Tail(components)
                  /\ unseen' = t.unseen
                  /\ IF t.unseen = {}
                     THEN UNCHANGED <<pc, active_edges>>
                     ELSE /\ pc' = "killing"
                          /\ active_edges' = [active_edges EXCEPT !.old = active_edges.now]
    /\ UNCHANGED <<inputs, others, formula, result, enum, solve_calls, clean_edges,
                   kill_log, iteration_no>>

\* "for i, j in unseen: network.kill(i, j)", one edge of the set at a time
KillUnseen ==
    /\ pc = "killing"
    /\ \E e \in unseen :
          /\ network' = kill(network, e)
          /\ unseen' = unseen \ {e}
          /\ kill_log' = kill_log \cup
                {[edge |-> e, before |-> network, tested |-> tested]}
    /\ UNCHANGED <<inputs, others, formula, result, enum, solve_calls, components,
                   active_edges, clean_edges, tested, iteration_no, pc>>

\* A faulty variant of the step after the kills: the pass is restarted also
\* when the kills left the number of active edges as it was
AfterKillsRestartOnEqual ==
    /\ pc = "killing"
    /\ unseen = {}
    /\ LET net == set_activity_level(network, MAX_COMP_SIZE)
       IN /\ network' = net
          /\ active_edges' = [active_edges EXCEPT !.now = ActiveEdges(net)]
          /\ IF ActiveEdges(net) >= active_edges.old
             THEN pc' = "pass" /\ iteration_no' = iteration_no + 1
             ELSE pc' = "component" /\ UNCHANGED iteration_no
    /\ UNCHANGED <<inputs, others, formula, result, enum, solve_calls, components,
                   unseen, clean_edges, tested, kill_log>>

\* After the kills: reset the activity level, recount, restart the pass if
\* there are new active edges
AfterKills ==
    /\ pc = "killing"
    /\ unseen = {}
    /\ LET net == set_activity_level(network, MAX_COMP_SIZE)
       IN /\ network' = net
          /\ active_edges' = [active_edges EXCEPT !.now = ActiveEdges(net)]
          /\ IF ActiveEdges(net) > active_edges.old
             THEN pc' = "pass" /\ iteration_no' = iteration_no + 1
             ELSE pc' = "component" /\ UNCHANGED iteration_no
    /\ UNCHANGED <<inputs, others, formula, result, enum, solve_calls, components,
                   unseen, clean_edges, tested, kill_log>>

\* The for loop ran out of components: leave the outer loop and enter
\* clean_components, which builds its formula and lists the active edges
\* with an activation variable
CleanBegin ==
    /\ pc = "component"
    /\ components = <<>>
    /\ tested' = network
    /\ IF ClusteringCSPRaises(network)
       THEN /\ pc' = "raised"
            /\ UNCHANGED <<formula, clean_edges>>
       ELSE /\ formula' = ClusteringCSP(SigList, network)
            /\ clean_edges' =
                  LET g == active_graph(network)
                  IN Filter(LAMBDA e : ~(Degree(g, e[1]) = 1 /\ Degree(g, e[2]) = 1),
                            EdgeSeq(g.edges))
            /\ pc' = "cleaning"
    /\ UNCHANGED <<inputs, others, network, result, enum, solve_calls, components,
                   unseen, active_edges, kill_log, iteration_no>>

\* One edge of clean_components: force it active, solve, flush, kill on UNSAT
CleanEdge ==
    /\ pc = "cleaning"
    /\ clean_edges # <<>>
    /\ LET e == Head(clean_edges)
           f1 == add_aux_clause(formula,
                                <<formula.activation_variables[e[1]][e[2]]>>)
       IN \E res \in solve(f1) :
             /\ result' = res
             /\ formula' = flush(f1)
             /\ IF res = {}
                THEN /\ network' = kill(network, e)
                     /\ kill_log' = kill_log \cup
                           {[edge |-> e, before |-> network, tested |-> tested]}
                ELSE UNCHANGED <<network, kill_log>>
    /\ clean_edges' = Tail(clean_edges)
    /\ solve_calls' = solve_calls + 1
    /\ UNCHANGED <<inputs, others, enum, components, unseen, active_edges, tested,
                   iteration_no, pc>>

\* reduce_symmetrization_graph returns
CleanEnd ==
    /\ pc = "cleaning"
    /\ clean_edges = <<>>
    /\ pc' = "reduced"
    /\ UNCHANGED <<inputs, others, network, formula, result, enum, solve_calls, reducer>>

\* SymGraph.__init__ has added every edge with active=False, dead=False
InitSym ==
    /\ signatures \in SymSignatureInputs
    /\ structure \in StructureInputs
    /\ \E E \in SymGraphInputs :
          /\ noes \in SymNoeInputs
          /\ network = [e \in E |-> [active |-> FALSE, dead |-> FALSE]]
    /\ InitLocals

NextSym ==
    \/ Activate \/ Deactivate \/ Kill \/ SetActivityLevel
    \/ ReduceBegin \/ PassBegin \/ TestComponent \/ KillUnseen \/ AfterKills
    \/ CleanBegin \/ CleanEdge \/ CleanEnd

SpecSym == InitSym /\ [][NextSym]_vars

\* The reducer on four NOEs with every pair an edge, or on a chain of three,
\* some of the edges activated by hand before the call
BigComponent == {e \in AllEdges : e[2] <= 4}

BigGraphInputs == {BigComponent, {<<1, 2>>, <<2, 3>>}}

InitSymBig ==
    /\ signatures \in SymSignatureInputs
    /\ structure \in StructureInputs
    /\ noes \in SymNoeInputs
    /\ \E E \in BigGraphInputs :
          network = [e \in E |-> [active |-> FALSE, dead |-> FALSE]]
    /\ InitLocals

NextSymBig ==
    \/ Activate
    \/ ReduceBegin \/ PassBegin \/ TestComponent \/ KillUnseen \/ AfterKills
    \/ CleanBegin \/ CleanEdge \/ CleanEnd

SpecSymBig == InitSymBig /\ [][NextSymBig]_vars

\* The interpreter keeps running the call: a step of the reducer that can be
\* taken is taken.  This is weak fairness of the reducer's steps with its
\* ENABLED written out: such a step can be taken, and changes the state,
\* exactly while pc is "pass", "component", "killing" or "cleaning".
SymFair ==
    \/ []<>(pc \notin {"pass", "component", "killing", "cleaning"})
    \/ []<><<TRUE>>_vars

SpecSymLive == SpecSym /\ SymFair

SpecSymBigLive == SpecSymBig /\ SymFair

\* ------------------------------------------------------ camera/noes.py
\* A column of a row is <<>> when the file leaves it empty (dropna removes
\* it) and <<v>> when it holds v.
Present(x) == x # <<>>

\* Python's truth of source.get(column, None): None and 0.0 are false
Truthy(x) == x # <<>> /\ x[1] # 0

\* "Determine the type of this NOE"
NoeType(c1, h1) ==
    IF Truthy(c1) /\ Truthy(h1) THEN "4D"
    ELSE IF Truthy(c1) THEN "CCH"
    ELSE "HCH"

\* "Check for diagonals": "Warning" for a diagonal, "TypeError" when the
\* subtraction meets a None, "no" when nothing is raised
CheckDiagonal(type, c1, h1, c2, h2) ==
    IF type = "CCH"
    THEN IF Abs(c1[1] - c2[1]) < DIAG_CTOL THEN "Warning" ELSE "no"
    ELSE IF type = "HCH"
    THEN IF ~Present(h1) THEN "TypeError"
         ELSE IF Abs(h1[1] - h2[1]) < DIAG_HTOL THEN "Warning" ELSE "no"
    ELSE IF Abs(h1[1] - h2[1]) < DIAG_HTOL /\ Abs(c1[1] - c2[1]) < DIAG_CTOL
         THEN "Warning" ELSE "no"

\* Noe.__init__: what it raises, and the object it leaves when it returns.
\* short_range is no field Noe.__init__ sets: it is FALSE until a caller
\* assigns it.
Noe(source) ==
    IF ~Present(source.c2) \/ ~Present(source.h2)
    THEN [raised |-> "KeyError", noe |-> <<>>]
    ELSE LET type == NoeType(source.c1, source.h1)
         IN [raised |-> CheckDiagonal(type, source.c1, source.h1,
                                      source.c2, source.h2),
             noe |-> [label |-> source.label, c1 |-> source.c1,
                      h1 |-> source.h1, c2 |-> source.c2, h2 |-> source.h2,
                      type |-> type, reciprocal_str |-> source.reciprocals,
                      reciprocals |-> {}, short_range |-> FALSE]]

\* A faulty variant of Noe.symmetric: only one of the two mirrored carbon
\* pairs of a CCH NOE is compared
symmetric_oneway(a, b) ==
    IF a.type # b.type THEN FALSE
    ELSE IF a.type = "CCH"
    THEN Abs(a.c1[1] - b.c2[1]) < SYM_CTOL
    ELSE IF a.type = "HCH"
    THEN /\ Abs(a.h1[1] - b.h2[1]) < SYM_HTOL
         /\ Abs(a.h2[1] - b.h1[1]) < SYM_HTOL
    ELSE /\ Abs(a.h1[1] - b.h2[1]) < SYM_HTOL
         /\ Abs(a.h2[1] - b.h1[1]) < SYM_HTOL
         /\ Abs(a.c1[1] - b.c2[1]) < SYM_CTOL
         /\ Abs(a.c2[1] - b.c1[1]) < SYM_CTOL

\* Noe.symmetric
symmetric(a, b) ==
    IF a.type # b.type THEN FALSE
    ELSE IF a.type = "CCH"
    THEN /\ Abs(a.c1[1] - b.c2[1]) < SYM_CTOL
         /\ Abs(a.c2[1] - b.c1[1]) < SYM_CTOL
    ELSE IF a.type = "HCH"
    THEN /\ Abs(a.h1[1] - b.h2[1]) < SYM_HTOL
         /\ Abs(a.h2[1] - b.h1[1]) < SYM_HTOL
    ELSE /\ Abs(a.h1[1] - b.h2[1]) < SYM_HTOL
         /\ Abs(a.h2[1] - b.h1[1]) < SYM_HTOL
         /\ Abs(a.c1[1] - b.c2[1]) < SYM_CTOL
         /\ Abs(a.c2[1] - b.c1[1]) < SYM_CTOL

\* set_reciprocals: the pairs of which one names the other in its
\* reciprocals column become each other's reciprocals
set_reciprocals(list) ==
    [k \in 1..Len(list) |->
        [list[k] EXCEPT !.reciprocals =
            {list[x].label : x \in {y \in 1..Len(list) :
                /\ y # k
                /\ \/ list[k].label \in list[y].reciprocal_str
                   \/ list[y].label \in list[k].reciprocal_str}}]]

\* The edge between two NOEs, the one that comes first in the list first
Edge(i, j) == IF i < j THEN <<i, j>> ELSE <<j, i>>

\* The edges SymGraph.__init__ adds for the known reciprocals
ReciprocalEdges(source) ==
    UNION {{Edge(source[k].label, j) : j \in source[k].reciprocals} :
              k \in 1..Len(source)}

\* The edges SymGraph.__init__ adds with find_symmetries: the symmetric
\* pairs of NOEs neither of which has a known reciprocal
SymmetricEdges(source) ==
    {Edge(source[p[1]].label, source[p[2]].label) :
        p \in {q \in (1..Len(source)) \X (1..Len(source)) :
                  /\ q[1] < q[2]
                  /\ source[q[1]].reciprocals = {}
                  /\ source[q[2]].reciprocals = {}
                  /\ symmetric(source[q[1]], source[q[2]])}}

\* SymGraph.__init__: every edge is added with active=False, dead=False
SymGraph(source, find_symmetries) ==
    [e \in ReciprocalEdges(source)
              \cup (IF find_symmetries THEN SymmetricEdges(source) ELSE {})
        |-> [active |-> FALSE, dead |-> FALSE]]

\* The rows of an NOE file.  Two rows with any coordinates:
CarbonColumn == {<<>>, <<1860>>, <<2110>>}
ProtonColumn == {<<>>, <<0>>, <<10>>}
Carbon2Column == {<<>>, <<1870>>, <<2114>>, <<2125>>}
Proton2Column == {<<10>>, <<11>>, <<12>>}

RowPairs ==
    {<<[label |-> 1, c1 |-> a[1], h1 |-> a[2], c2 |-> a[3], h2 |-> a[4],
        reciprocals |-> {}],
       [label |-> 2, c1 |-> b[1], h1 |-> b[2], c2 |-> b[3], h2 |-> b[4],
        reciprocals |-> {}]>> :
        a, b \in CarbonColumn \X ProtonColumn \X Carbon2Column \X Proton2Column}

\* NRow CCH rows, each naming at most one other row as its reciprocal
NRow == 3
CCHShapes == {<<2110, 1870>>, <<1860, 2114>>, <<1860, 2125>>}

RowLists ==
    {[k \in 1..NRow |->
        [label |-> k, c1 |-> <<shape[k][1]>>, h1 |-> <<>>,
         c2 |-> <<shape[k][2]>>, h2 |-> <<10>>,
         reciprocals |-> IF rec[k] \in {0, k} THEN {} ELSE {rec[k]}]] :
        shape \in [1..NRow -> CCHShapes], rec \in [1..NRow -> 0..NRow]}

\* parse_noe_file, one row of the file
ParseRow ==
    /\ pc = "reading"
    /\ row_idx < Len(rows)
    /\ row_idx' = row_idx + 1
    /\ LET made == Noe(rows[row_idx + 1])
       IN /\ crosspeaks' = IF made.raised = "no"
                           THEN Append(crosspeaks, made.noe) ELSE crosspeaks
          /\ no_diagonals' = IF made.raised = "Warning"
                             THEN no_diagonals + 1 ELSE no_diagonals
    /\ UNCHANGED <<inputs, gibbs, extra, last_call, rows, network, formula, result, enum,
                   solve_calls, reducer, pc>>

\* parse_noe_file returns the list
ParseEnd ==
    /\ pc = "reading"
    /\ row_idx = Len(rows)
    /\ pc' = "parsed"
    /\ UNCHANGED <<inputs, others, network, formula, result, enum,
                   solve_calls, reducer>>

\* noes.set_reciprocals(crosspeaks)
SetReciprocals ==
    /\ pc = "parsed"
    /\ crosspeaks' = set_reciprocals(crosspeaks)
    /\ pc' = "linked"
    /\ UNCHANGED <<inputs, gibbs, extra, last_call, rows, row_idx, no_diagonals, network,
                   formula, result, enum, solve_calls, reducer>>

\* "n.short_range = True", on an NOE of the list
SetShortRange ==
    /\ pc = "linked"
    /\ \E k \in 1..Len(crosspeaks) :
          crosspeaks' = [crosspeaks EXCEPT ![k].short_range = TRUE]
    /\ UNCHANGED <<inputs, gibbs, extra, last_call, rows, row_idx, no_diagonals, network,
                   formula, result, enum, solve_calls, reducer, pc>>

\* network.SymGraph(crosspeaks, find_symmetries); an empty list has no type
\* to take, and the constructor raises
BuildSymGraph ==
    /\ pc = "linked"
    /\ \E find_symmetries \in BOOLEAN :
          /\ last_call' = [op |-> "SymGraph", arg |-> find_symmetries]
          /\ IF crosspeaks = <<>>
             THEN pc' = "raised" /\ UNCHANGED network
             ELSE /\ network' = SymGraph(crosspeaks, find_symmetries)
                  /\ pc' = "graph"
    /\ UNCHANGED <<inputs, parse, gibbs, extra, formula, result, enum, solve_calls, reducer>>

InitNoe ==
    /\ signatures = <<>>
    /\ noes = <<>>
    /\ structure = <<>>
    /\ network = <<>>
    /\ InitCore
    /\ GibbsIdle
    /\ ExtraIdle
    /\ rows \in RowPairs \cup RowLists
    /\ crosspeaks = <<>>
    /\ row_idx = 0
    /\ no_diagonals = 0
    /\ pc = "reading"

NextNoe ==
    ParseRow \/ ParseEnd \/ SetReciprocals \/ SetShortRange \/ BuildSymGraph

SpecNoe == InitNoe /\ [][NextNoe]_vars

\* ------------------------------------- a Formula object and its callers
\* The callers of a Formula: variables, clauses, auxiliary clauses, flush
\* and solve, in any order
MaxVars == 2
MaxClauses == 2

\* The clauses a caller may add: one literal, or two over different variables
ClauseInputs(f) ==
    LET literals == {x \in (-f.nvars)..f.nvars : x # 0}
    IN {<<l>> : l \in literals}
          \cup {<<p[1], p[2]>> :
                   p \in {q \in literals \X literals : Abs(q[1]) < Abs(q[2])}}

NextVariable ==
    /\ pc = "formula"
    /\ formula.nvars < MaxVars
    /\ \E m \in Methyls :
          formula' = next_variable(formula, <<ASG_VAR, 1, m>>)
    /\ last_call' = [op |-> "next_variable", arg |-> 0]
    /\ UNCHANGED <<inputs, parse, gibbs, extra, network, result, enum, solve_calls, reducer, pc>>

AddClause ==
    /\ pc = "formula"
    /\ formula.nclauses < MaxClauses
    /\ \E lits \in ClauseInputs(formula) :
          formula' = add_clause(formula, lits)
    /\ last_call' = [op |-> "add_clause", arg |-> 0]
    /\ UNCHANGED <<inputs, parse, gibbs, extra, network, result, enum, solve_calls, reducer, pc>>

AddAuxClause ==
    /\ pc = "formula"
    /\ formula.nclauses < MaxClauses
    /\ \E lits \in ClauseInputs(formula) :
          formula' = add_aux_clause(formula, lits)
    /\ last_call' = [op |-> "add_aux_clause", arg |-> 0]
    /\ UNCHANGED <<inputs, parse, gibbs, extra, network, result, enum, solve_calls, reducer, pc>>

Flush ==
    /\ pc = "formula"
    /\ formula' = flush(formula)
    /\ last_call' = [op |-> "flush", arg |-> 0]
    /\ UNCHANGED <<inputs, parse, gibbs, extra, network, result, enum, solve_calls, reducer, pc>>

\* Formula.solve when the solver answers in time: the formula is written
\* out with to_string and the solver's output is read; no field is assigned
SolveReturns ==
    /\ pc = "formula"
    /\ result' \in solve(formula)
    /\ last_call' = [op |-> "solve", arg |-> "returned"]
    /\ UNCHANGED <<inputs, parse, gibbs, extra, network, formula, enum, solve_calls,
                   reducer, pc>>

\* Formula.solve when the solver is still running after 15 seconds:
\* subprocess.run raises TimeoutExpired, which solve does not catch
SolveTimesOut ==
    /\ pc = "formula"
    /\ last_call' = [op |-> "solve", arg |-> "TimeoutExpired"]
    /\ pc' = "raised"
    /\ UNCHANGED <<inputs, parse, gibbs, extra, network, formula, result, enum,
                   solve_calls, reducer>>

InitFormula ==
    /\ signatures = <<>>
    /\ noes = <<>>
    /\ structure = <<>>
    /\ network = <<>>
    /\ InitCore
    /\ ParseIdle
    /\ GibbsIdle
    /\ ExtraIdle
    /\ pc = "formula"

NextFormula ==
    \/ NextVariable \/ AddClause \/ AddAuxClause \/ Flush
    \/ SolveReturns \/ SolveTimesOut

SpecFormula == InitFormula /\ [][NextFormula]_vars

\* --------------------------------------- camera/sat.py: IsomorphismCSP
\* Signature.is_geminal: "self.geminal == other"
is_geminal(i, j) == signatures[i].geminal = j

\* The radius ladder of IsomorphismCSP.distance_constraints for the edge e
within_range(g, e, i_met, j_met) ==
    IF g[e].short THEN Distance(i_met, j_met) < SHORT_RADIUS
    ELSE IF MethylAdded(i_met) \/ MethylAdded(j_met)
         THEN Distance(i_met, j_met) < ADDED_RADIUS
    ELSE Distance(i_met, j_met) < RADIUS

\* One pass of "for i_met in asgvar[i].keys()": an edge variable and its three
\* defining clauses for every admissible j_met, then the clause of i_met.  The
\* meaning (EDG_VAR, (i, j), (i_met, j_met)) is kept flat.
IsoDistanceMethyl(f, g, e, i_met) ==
    LET i == e[1]
        j == e[2]
        a_i == f.assignment_variables[i][i_met]
        ok == Filter(LAMBDA j_met :
                         /\ i_met # j_met
                         /\ ~(is_geminal(i, j) /\ ~MethylGeminal(i_met, j_met))
                         /\ within_range(g, e, i_met, j_met),
                     Keys(f.assignment_variables[j]))
        f1 == Fold(LAMBDA h, j_met :
                     LET h1 == next_variable(h, <<EDG_VAR, i, j, i_met, j_met>>)
                         variable == h1.nvars
                         a_j == h.assignment_variables[j][j_met]
                     IN add_clause(
                          add_clause(
                            add_clause(h1, <<-variable, a_i>>),
                            <<-variable, a_j>>),
                          <<variable, -a_i, -a_j>>),
                   f, ok)
    IN add_clause(f1, <<-a_i>> \o [x \in 1..Len(ok) |->
                                     f.assignment_variables[j][ok[x]]])

\* IsomorphismCSP.distance_constraints, with edge variables
iso_distance_constraints(f, g) ==
    Fold(LAMBDA h, e :
           Fold(LAMBDA h2, i_met : IsoDistanceMethyl(h2, g, e, i_met),
                h, Keys(h.assignment_variables[e[1]])),
         f, EdgeSeq(DOMAIN g))

\* IsomorphismCSP.__init__ with edge_variables=True, as gibbs_reduce calls it.
\* variable_cost only weights the sampler's draw and is left out.
IsomorphismCSP(g) ==
    iso_distance_constraints(
        inject_vertices(NewFormula, SigList, SetToSeq(Methyls)), g)

\* ------------------------------ camera/sat.py: marginalize, gibbs_reduce
\* Signature.nailed
nailed(s) == Cardinality({MethylSeqid(m) : m \in signatures[s].options}) = 1

\* parse_assignments for one sample: "assignment[alpha] = beta" for every true
\* ASG_VAR in variable order, so the last one stays (0: no entry)
ParseSample(f, T) ==
    [s \in Sigs |->
        LET vs == {v \in T : /\ f.variable_meaning[v][1] = ASG_VAR
                             /\ f.variable_meaning[v][2] = s}
        IN IF vs = {} THEN 0
           ELSE f.variable_meaning[CHOOSE v \in vs : \A w \in vs : w <= v][3]]

\* The number of samples asked for
NumSamples == 2

\* sample: what the SPUR sampler may hand back.  Every satisfying assignment
\* has a positive weight, so any list of them can be drawn; the list is
\* shorter than num_samples when lines of the output are filtered away.
sample(f, num_samples) ==
    LET sols == {ParseSample(f, T) : T \in SatisfyingAssignments(f)}
    IN UNION {[1..k -> sols] : k \in 0..num_samples}

\* The keys of marginals[s], in the order the samples insert them
MarginalKeys(samples, s) ==
    Fold(LAMBDA acc, smp :
           IF MethylSeqid(smp[s]) \in Range(acc) THEN acc
           ELSE Append(acc, MethylSeqid(smp[s])),
         <<>>, samples)

\* marginalize, given the samples: marginals[s][q] is count / num_samples
marginalize(samples) ==
    [s \in Sigs |->
        [keys |-> MarginalKeys(samples, s),
         count |-> [q \in {MethylSeqid(m) : m \in Methyls} |->
                      Cardinality({k \in 1..Len(samples) :
                                      MethylSeqid(samples[k][s]) = q})]]]

\* correlate_assignments: the body of the loop over the pairs of assignments.
\* real_prob is r / len(samples), the marginals are counts / num_samples; the
\* two comparisons are made on the cross-multiplied integers.
CorrelatePair(f, marginals, samples, num_samples, pair, ids) ==
    LET sig1 == pair[1]
        sig2 == pair[2]
        m1_id == ids[1]
        m2_id == ids[2]
        indep == marginals[sig1].count[m1_id] * marginals[sig2].count[m2_id]
        r == Cardinality({k \in 1..Len(samples) :
                             /\ MethylSeqid(samples[k][sig1]) = m1_id
                             /\ MethylSeqid(samples[k][sig2]) = m2_id})
        m1s == Filter(LAMBDA m : MethylSeqid(m) = m1_id,
                      Keys(f.assignment_variables[sig1]))
        m2s == Filter(LAMBDA m : MethylSeqid(m) = m2_id,
                      Keys(f.assignment_variables[sig2]))
        lits1 == [x \in 1..Len(m1s) |-> f.assignment_variables[sig1][m1s[x]]]
        lits2 == [x \in 1..Len(m2s) |-> f.assignment_variables[sig2][m2s[x]]]
    IN IF m1_id = m2_id THEN f
       ELSE IF r * num_samples * num_samples > 10 * indep * Len(samples)
       THEN Fold(LAMBDA h, l2 : add_clause(h, <<-l2>> \o lits1),
                 Fold(LAMBDA h, l1 : add_clause(h, <<-l1>> \o lits2), f, lits1),
                 lits2)
       ELSE IF 10 * r * num_samples * num_samples < indep * Len(samples)
       THEN Fold(LAMBDA h, p : add_clause(h, <<-p[1], -p[2]>>),
                 f, Product(lits1, lits2))
       ELSE f

correlate_assignments(f, marginals, samples, num_samples) ==
    Fold(LAMBDA h, pair :
           IF is_geminal(pair[1], pair[2]) THEN h
           ELSE IF Len(marginals[pair[1]].keys) = 1
                   \/ Len(marginals[pair[2]].keys) = 1 THEN h
           ELSE Fold(LAMBDA h2, ids :
                       CorrelatePair(h2, marginals, samples, num_samples,
                                     pair, ids),
                     h, Product(marginals[pair[1]].keys,
                                marginals[pair[2]].keys)),
         f, Combinations(SigList, 2))

\* "max(distribution.keys(), key=...)": the first key of the highest marginal
Highest(distribution) ==
    LET keys == distribution.keys
        k == CHOOSE x \in 1..Len(keys) :
                /\ \A y \in 1..Len(keys) :
                      distribution.count[keys[y]] <= distribution.count[keys[x]]
                /\ \A y \in 1..(x - 1) :
                      distribution.count[keys[y]] < distribution.count[keys[x]]
    IN keys[k]

\* gibbs_reduce: the body of "for vertex, distribution in marginals.items()";
\* percent_nailed is counted in units of 1/graph_h.number_of_nodes()
NailVertex(acc, marginals, num_samples, vertex) ==
    IF vertex \notin acc.unnailed THEN acc
    ELSE LET highest == Highest(marginals[vertex])
             options == Filter(LAMBDA m :
                                   /\ MethylSeqid(m) = highest
                                   /\ acc.f.assignment_variables[vertex][m] # 0,
                               SetToSeq(Methyls))
         IN IF 10 * marginals[vertex].count[highest] > 9 * num_samples
            THEN [f |-> add_clause(acc.f,
                          [x \in 1..Len(options) |->
                              acc.f.assignment_variables[vertex][options[x]]]),
                  unnailed |-> acc.unnailed \ {vertex},
                  percent_nailed |-> acc.percent_nailed + 1]
            ELSE acc

\* The signature graphs handed to gibbs_reduce: no edge, or the edge (1, 2)
GraphHInputs ==
    {<<>>} \cup {[e \in {<<1, 2>>} |-> [short |-> b]] : b \in BOOLEAN}

\* The HMQC lists handed to gibbs_reduce: signature 1 may come with options
GibbsSignatureInputs ==
    {[sg EXCEPT ![1].options = o] : sg \in SignatureInputs, o \in {{}, {3}}}

\* gibbs_reduce, up to the loop
GibbsBegin ==
    /\ pc = "start"
    /\ last_call' = [op |-> "gibbs_reduce", arg |-> NumSamples]
    /\ formula' = IsomorphismCSP(graph_h)
    /\ old_percent_nailed' = 0
    /\ unnailed' = {n \in Sigs : ~nailed(n)}
    /\ pc' = "sampling"
    /\ UNCHANGED <<inputs, parse, extra, graph_h, network, result, enum, solve_calls,
                   reducer>>

\* One iteration of "while True": marginalize, correlate_assignments, the
\* nailing loop and the comparison with the previous iteration.  max() raises
\* ValueError on the empty distribution of the first unnailed vertex when the
\* sampler handed back nothing; "return formula.enumerate()" leaves the
\* formula ready for enumerate.
GibbsIterate ==
    /\ pc = "sampling"
    /\ \E samples \in sample(formula, NumSamples) :
          LET marginals == marginalize(samples)
              f1 == correlate_assignments(formula, marginals, samples,
                                          NumSamples)
              done == Fold(LAMBDA acc, vertex :
                             NailVertex(acc, marginals, NumSamples, vertex),
                           [f |-> f1, unnailed |-> unnailed,
                            percent_nailed |-> 0],
                           SigList)
          IN IF samples = <<>> /\ unnailed # {}
             THEN /\ formula' = f1
                  /\ pc' = "raised"
                  /\ UNCHANGED <<unnailed, old_percent_nailed>>
             ELSE /\ formula' = done.f
                  /\ unnailed' = done.unnailed
                  /\ IF done.percent_nailed = old_percent_nailed
                     THEN pc' = "built" /\ UNCHANGED old_percent_nailed
                     ELSE /\ old_percent_nailed' = done.percent_nailed
                          /\ UNCHANGED pc
    /\ UNCHANGED <<inputs, last_call, parse, extra, graph_h, network, result, enum,
                   solve_calls, reducer>>

InitGibbs ==
    /\ signatures \in GibbsSignatureInputs
    /\ structure \in StructureInputs
    /\ noes = <<>>
    /\ network = <<>>
    /\ InitCore
    /\ ParseIdle
    /\ ExtraIdle
    /\ graph_h \in GraphHInputs
    /\ unnailed = {}
    /\ old_percent_nailed = 0
    /\ pc = "start"

NextGibbs ==
    \/ GibbsBegin \/ GibbsIterate
    \/ EnumerateBegin \/ EnumerateStep \/ EnumerateReturn

SpecGibbs == InitGibbs /\ [][NextGibbs]_vars

\* ------------------------------------ camera/sat.py: IsomorphismCSP.sample
\* The calls of sample() one run makes
MaxSampleCalls == 2

\* The three files of the call named b
SampleFiles(b) == {<<b, "txt">>, <<b, "cnf">>, <<b, "samples">>}

\* sample, up to the sampler: uuid4 hands out a name never handed out before,
\* the weights file and the CNF file are written.  (The formulas here are
\* built with edge variables, so the assertion at the head of sample passes.)
SampleWrite ==
    /\ pc = "sampler"
    /\ basename < MaxSampleCalls
    /\ basename' = basename + 1
    /\ tmp_files' = tmp_files \cup {<<basename', "txt">>, <<basename', "cnf">>}
    /\ pc' = "spur"
    /\ UNCHANGED <<inputs, last_call, parse, gibbs, assignments, clustering, amo, network,
                   formula, result, enum, solve_calls, reducer>>

\* subprocess.run of spur, whose exit status is not looked at: the sampler
\* writes its output file, or fails and writes none
RunSpur ==
    /\ pc = "spur"
    /\ \/ tmp_files' = tmp_files \cup {<<basename, "samples">>}
       \/ UNCHANGED tmp_files
    /\ pc' = "reading"
    /\ UNCHANGED <<inputs, last_call, parse, gibbs, basename, assignments,
                   clustering, amo, network, formula, result, enum, solve_calls, reducer>>

\* "os.remove" of the three files of the call
RemoveFiles(files, b) == files \ SampleFiles(b)

\* The rest of sample: open() raises FileNotFoundError when there is no
\* output file, parse_assignments raises on a line it cannot read, and only
\* after both have passed are the three files removed and the list returned
ReadSamples ==
    /\ pc = "reading"
    /\ IF <<basename, "samples">> \notin tmp_files
       THEN /\ pc' = "raised"
            /\ UNCHANGED <<tmp_files, assignments>>
       ELSE \/ /\ pc' = "raised"
               /\ UNCHANGED <<tmp_files, assignments>>
            \/ /\ assignments' \in sample(formula, NumSamples)
               /\ tmp_files' = RemoveFiles(tmp_files, basename)
               /\ pc' = "sampler"
    /\ UNCHANGED <<inputs, last_call, parse, gibbs, basename, clustering, amo, network, formula,
                   result, enum, solve_calls, reducer>>

InitSample ==
    /\ signatures \in SignatureInputs
    /\ structure \in StructureInputs
    /\ noes = <<>>
    /\ network = <<>>
    /\ graph_h \in GraphHInputs
    /\ unnailed = {}
    /\ old_percent_nailed = 0
    /\ unfinished = {}
    /\ support = [s \in Sigs |-> {}]
    /\ solve_calls = 0
    /\ components = <<>>
    /\ unseen = {}
    /\ active_edges = [now |-> 0, old |-> 0]
    /\ clean_edges = <<>>
    /\ tested = <<>>
    /\ kill_log = {}
    /\ iteration_no = 0
    /\ result = {}
    /\ last_call = NoCall
    /\ ParseIdle
    /\ ExtraIdle
    /\ formula = IsomorphismCSP(graph_h)
    /\ pc = "sampler"

NextSample == SampleWrite \/ RunSpur \/ ReadSamples

SpecSample == InitSample /\ [][NextSample]_vars

\* ------------------------------------ camera/network.py: SignatureGraph
\* An undirected edge between two signatures (a loop when they are the same)
SigEdge(a, b) == IF a <= b THEN <<a, b>> ELSE <<b, a>>

\* The edges of the living graph whose two ends have degree 1
PairedEdges(symgraph) ==
    LET living_network == living_graph(symgraph)
    IN {e \in living_network.edges :
          Degree(living_network, e[1]) = 1 /\ Degree(living_network, e[2]) = 1}

\* SignatureGraph.__init__: edge -> its attributes.  The edges of the paired
\* NOEs are added with geminal=False, then the geminal pairs with
\* geminal=True (add_edge on an edge that is there updates the attribute).
SignatureGraph(sigs, symgraph, clusters) ==
    LET paired == {SigEdge(clusters[e[1]], clusters[e[2]]) :
                      e \in PairedEdges(symgraph)}
        geminal == {p \in Range(Combinations(sigs, 2)) : is_geminal(p[1], p[2])}
    IN [e \in paired \cup geminal |-> [geminal |-> e \in geminal]]

\* IsomorphismCSP.distance_constraints raises KeyError: it reaches
\* graph_h[i][j]["short"] for an edge that has no such attribute
IsomorphismCSPRaises(g) ==
    \E e \in DOMAIN g :
        /\ "short" \notin DOMAIN g[e]
        /\ \E i_met \in Domain(e[1]), j_met \in Domain(e[2]) :
              /\ i_met # j_met
              /\ ~(is_geminal(e[1], e[2]) /\ ~MethylGeminal(i_met, j_met))

\* The symmetrization graphs a SignatureGraph is derived from
SigGraphNetworks ==
    {[e \in E |-> [active |-> FALSE, dead |-> e \in D]] :
        E \in {{<<1, 2>>}, {<<1, 2>>, <<3, 4>>}, {<<1, 2>>, <<2, 3>>}},
        D \in {{}, {<<1, 2>>}}}

SigGraphNoes ==
    {[n \in Noes |-> [clusters |-> {1}, short_range |-> n \in S]] :
        S \in SUBSET {1, 2}}

\* SignatureGraph(signatures, symgraph, clustering)
BuildSignatureGraph ==
    /\ pc = "start"
    /\ last_call' = [op |-> "SignatureGraph", arg |-> 0]
    /\ graph_h' = SignatureGraph(SigList, network, clustering)
    /\ pc' = "signature_graph"
    /\ UNCHANGED <<inputs, parse, extra, unnailed, old_percent_nailed, network,
                   formula, result, enum, solve_calls, reducer>>

\* IsomorphismCSP(graph_h, structure) on the graph just built
BuildIsomorphismCSP ==
    /\ pc = "signature_graph"
    /\ last_call' = [op |-> "IsomorphismCSP", arg |-> 0]
    /\ IF IsomorphismCSPRaises(graph_h)
       THEN pc' = "raised" /\ UNCHANGED formula
       ELSE pc' = "built" /\ formula' = IsomorphismCSP(graph_h)
    /\ UNCHANGED <<inputs, parse, gibbs, extra, network, result, enum,
                   solve_calls, reducer>>

InitSigGraph ==
    /\ signatures \in SignatureInputs
    /\ structure \in StructureInputs
    /\ noes \in SigGraphNoes
    /\ network \in SigGraphNetworks
    /\ InitCore
    /\ ParseIdle
    /\ GibbsIdle
    /\ SamplerIdle
    /\ amo = [n |-> 0, true |-> {}]
    /\ clustering \in [Noes -> Sigs]
    /\ pc = "start"

NextSigGraph == BuildSignatureGraph \/ BuildIsomorphismCSP

SpecSigGraph == InitSigGraph /\ [][NextSigGraph]_vars

\* ------------------------------------ camera/sat.py: Formula.at_most_one
\* The longest list of literals at_most_one is given
MaxLits == 10

\* The literals handed to at_most_one: the first n variables of the formula
AmoLits == [k \in 1..amo.n |-> k]

\* self.at_most_one(lits) on a formula that holds the variables of lits
AtMostOne ==
    /\ pc = "lits"
    /\ last_call' = [op |-> "at_most_one", arg |-> amo.n]
    /\ formula' = at_most_one(formula, AmoLits)
    /\ pc' = "encoded"
    /\ UNCHANGED <<inputs, parse, gibbs, extra, network, result, enum,
                   solve_calls, reducer>>

\* A formula with n variables and no clause, and a truth value for each
InitAmo ==
    /\ signatures = <<>>
    /\ noes = <<>>
    /\ structure = <<>>
    /\ network = <<>>
    /\ result = {}
    /\ unfinished = {}
    /\ support = [s \in Sigs |-> {}]
    /\ solve_calls = 0
    /\ components = <<>>
    /\ unseen = {}
    /\ active_edges = [now |-> 0, old |-> 0]
    /\ clean_edges = <<>>
    /\ tested = <<>>
    /\ kill_log = {}
    /\ iteration_no = 0
    /\ last_call = NoCall
    /\ ParseIdle
    /\ GibbsIdle
    /\ SamplerIdle
    /\ clustering = <<>>
    /\ \E n \in 0..MaxLits :
          /\ amo \in [n : {n}, true : SUBSET (1..n)]
          /\ formula = Fold(LAMBDA f, k : next_variable(f, <<ASG_VAR, 1, k>>),
                            NewFormula, [k \in 1..n |-> k])
    /\ pc = "lits"

NextAmo == AtMostOne

SpecAmo == InitAmo /\ [][NextAmo]_vars

\* ------------------------------------------ reading a satisfying assignment
\* solve() has returned a model (its list of true variables is not empty)
Solved == pc = "solved" /\ result # {}

\* The methyls s is assigned to, the signatures n is clustered to
Asg(s) == {m \in Methyls : <<ASG_VAR, s, m>> \in result}
Cst(n) == {c \in Sigs : <<CST_VAR, n, c>> \in result}
ActTrue(e) == <<ACT_VAR, e[1], e[2]>> \in result

\* C1: in every satisfying assignment of a formula built by inject_vertices
\* each signature has exactly one methyl with asg true and each methyl has
\* at most one signature with asg true.
C1_Injective ==
    Solved =>
        /\ \A s \in Sigs : Cardinality(Asg(s)) = 1
        /\ \A m \in Methyls : Cardinality({s \in Sigs : m \in Asg(s)}) <= 1

\* A model was returned although two signatures compete for one methyl
C1_Witness ==
    /\ Solved
    /\ \E m \in Methyls : \A s \in Sigs : m \in Domain(s)
    /\ \A s \in Sigs : Cardinality(Domain(s)) >= 2

\* The components of the active symmetrization graph with at least 3 nodes
BigComponents ==
    {c \in Range(connected_component_subgraphs(active_graph(network))) :
        Cardinality(c.nodes) >= 3}

\* C2: in every satisfying assignment of ClusteringCSP, in every component
\* of the active symmetrization graph with at least 3 nodes, the edges whose
\* act variable is true form a matching whose size is the number of vertices
\* of the smaller side of the component's bipartition.
C2_Matching ==
    Solved =>
        \A c \in BigComponents :
            LET on == {e \in c.edges : ActTrue(e)}
            IN /\ is_matching(on)
               /\ Cardinality(on) = Cardinality(LeftRight(c)[1])

\* A model was returned for a graph with a component of 3 nodes
C2_Witness ==
    /\ Solved
    /\ BigComponents # {}
    /\ \E c \in BigComponents : \E e \in c.edges : ActTrue(e)

\* The activated edges: act true, or the edge is a 2-node component
Activated ==
    LET g == active_graph(network)
    IN {e \in g.edges :
          ActTrue(e) \/ (Degree(g, e[1]) = 1 /\ Degree(g, e[2]) = 1)}

\* The signatures n is clustered to in the assignment
ClusteredTo(n) ==
    IF Cardinality(noes[n].clusters) = 1 THEN noes[n].clusters ELSE Cst(n)

\* The radius the specification applies to an edge: SHORT_RADIUS when either
\* end is short-range, else ADDED_RADIUS for an added methyl, else RADIUS
ApplicableRadius(e, a, b) ==
    IF noes[e[1]].short_range \/ noes[e[2]].short_range THEN SHORT_RADIUS
    ELSE IF MethylAdded(a) \/ MethylAdded(b) THEN ADDED_RADIUS
    ELSE RADIUS

\* C3: in every satisfying assignment of ClusteringCSP, for every activated
\* edge (i, j) with i clustered to si, j to sj, si assigned to mi and sj to
\* mj, the structure distance between mi and mj is strictly less than the
\* applicable radius (two ends clustered to one signature give one methyl
\* and no distance to speak of; the property is read for si # sj).
C3_Distance ==
    Solved =>
        \A e \in Activated :
            \A si \in ClusteredTo(e[1]), sj \in ClusteredTo(e[2]) :
                \A mi \in Asg(si), mj \in Asg(sj) :
                    si # sj => /\ mi # mj
                               /\ Distance(mi, mj) < ApplicableRadius(e, mi, mj)

\* What distance_constraints does enforce: the radius chosen by the first
\* end's short_range, and only between ends clustered to two signatures
C3_DistanceAsBuilt ==
    Solved =>
        \A e \in Activated :
            \A si \in ClusteredTo(e[1]), sj \in ClusteredTo(e[2]) :
                \A mi \in Asg(si), mj \in Asg(sj) :
                    si # sj => /\ mi # mj
                               /\ WithinRadius(EdgeShort(e[1], e[2]), mi, mj)

\* A model with an activated edge between two signatures
C3_Witness ==
    /\ Solved
    /\ \E e \in Activated :
          \E si \in ClusteredTo(e[1]), sj \in ClusteredTo(e[2]) : si # sj

\* C4: in every satisfying assignment of ClusteringCSP, a signature s with
\* geminal partner s' and assigned to m has s' assigned to a methyl that forms
\* a geminal pair with m.
C4_Geminal ==
    Solved =>
        \A s \in Sigs :
            signatures[s].geminal # 0 =>
                \A m \in Asg(s) :
                    \E m2 \in Asg(signatures[s].geminal) : MethylGeminal(m, m2)

\* A model for signatures that are geminal partners and that could also go
\* to methyls without a geminal partner
C4_Witness ==
    /\ Solved
    /\ \E s \in Sigs :
          /\ signatures[s].geminal # 0
          /\ \E m \in Domain(s) : \A m2 \in Methyls : ~MethylGeminal(m, m2)

\* C5: in every satisfying assignment of ClusteringCSP, every NOE of the
\* active symmetrization graph with more than one candidate cluster has
\* exactly one cst variable true.
C5_UniqueClustering ==
    Solved =>
        \A n \in active_graph(network).nodes :
            Cardinality(noes[n].clusters) > 1 => Cardinality(Cst(n)) = 1

\* A model for a graph with an ambiguous NOE
C5_Witness ==
    /\ Solved
    /\ \E n \in active_graph(network).nodes : Cardinality(noes[n].clusters) > 1

\* ------------------------------------------------- the enumerator's result
\* The formula the constructor handed to enumerate
Enumerated == ClusteringCSP(SigList, network)

\* m is in the support of s under formula f: some satisfying assignment of f
\* sets asg[s, m]
Supported(f, s, m) ==
    /\ f.assignment_variables[s][m] # 0
    /\ \E T \in SatisfyingAssignments(f) : f.assignment_variables[s][m] \in T

\* C7: when enumerate returns, m is in support[s] if and only if some
\* satisfying assignment of the formula (with the locking clauses enumerate
\* added) sets asg[s, m]; a support set is empty only if the formula handed
\* to enumerate was unsatisfiable.
C7_Complete ==
    pc = "returned" =>
        /\ \A s \in Sigs : \A m \in Methyls :
              m \in support[s] <=> Supported(formula, s, m)
        /\ (\E s \in Sigs : support[s] = {})
              => SatisfyingAssignments(Enumerated) = {}

\* enumerate returned a support set of two methyls and left a methyl of the
\* domain out of another
C7_Witness ==
    /\ pc = "returned"
    /\ \E s \in Sigs : Cardinality(support[s]) >= 2
    /\ \E s \in Sigs : support[s] # {} /\ Domain(s) \ support[s] # {}

\* C8: enumerate terminates: every iteration removes one signature from
\* unfinished (UNSAT) or adds a new methyl to the support set of an
\* unfinished signature (SAT), the number of solve calls never exceeds |S|
\* plus the sum of the domain sizes, and the loop reaches its return.  (The
\* steps from "enumerating" to "enumerating" are the loop's iterations.)
C8_Terminates ==
    /\ [](pc \in {"enumerating", "returned"} => solve_calls <= SolveBound)
    /\ [][pc = "enumerating" /\ pc' = "enumerating" =>
            \/ /\ \E s \in unfinished : unfinished' = unfinished \ {s}
               /\ support' = support
            \/ /\ unfinished' = unfinished
               /\ \E s \in unfinished :
                     support[s] \subseteq support'[s] /\ support[s] # support'[s]]_vars
    /\ (pc = "enumerating") ~> (pc = "returned")

\* enumerate returned after SAT and UNSAT answers for two signatures
C8_Witness ==
    /\ pc = "returned"
    /\ solve_calls >= 2 * Cardinality(Sigs)
    /\ \E s \in Sigs : Cardinality(support[s]) >= 2

\* The support map of a formula
SupportOf(f) == [s \in Sigs |-> {m \in Methyls : Supported(f, s, m)}]

\* C9: the support map enumerate returns is a function of the formula it
\* was handed: whatever vertex is picked at each step and whatever model the
\* solver returns, the result is the support map of that formula.
C9_OrderIndependent ==
    pc = "returned" => support = SupportOf(Enumerated)

\* enumerate returned for a formula with several models to pick from and
\* two vertices to pick from
C9_Witness ==
    /\ pc = "returned"
    /\ Cardinality(Sigs) >= 2
    /\ Cardinality(SatisfyingAssignments(Enumerated)) >= 3
    /\ \E s, t \in Sigs : s # t /\ Cardinality(support[s]) >= 2
                                  /\ Cardinality(support[t]) >= 2

\* ------------------------------------------------- the reducer's kills
\* The matchings of maximum cardinality of a graph
MaximumMatchings(g) ==
    {M \in SUBSET g.edges :
        is_matching(M) /\ Cardinality(M) = MaxMatchingSize(g)}

\* The network with the edges of M active
WithActive(net, M) ==
    [e \in DOMAIN net |-> IF e \in M THEN [net[e] EXCEPT !.active = TRUE]
                          ELSE net[e]]

\* Some satisfying assignment of the clustering CSP over net has e activated:
\* for an inactive edge, once a maximum matching of its component that holds
\* it is activated; for an active edge, with its act variable true (or, in a
\* 2-node component, with no variable to set)
CanBeActive(net, e) ==
    IF net[e].active
    THEN /\ ~ClusteringCSPRaises(net)
         /\ LET f == ClusteringCSP(SigList, net)
                v == f.activation_variables[e[1]][e[2]]
            IN \E T \in SatisfyingAssignments(f) : v = 0 \/ v \in T
    ELSE LET g == inactive_graph(net)
             c == Subgraph(g, Reachable(g, {e[1]}))
         IN \E M \in MaximumMatchings(c) :
               /\ e \in M
               /\ ~ClusteringCSPRaises(WithActive(net, M))
               /\ SatisfyingAssignments(
                      ClusteringCSP(SigList, WithActive(net, M))) # {}

\* C6, as stated: after reduce_symmetrization_graph returns, no edge it
\* killed could be active in a satisfying assignment of the clustering CSP
\* over the graph as it was just before that edge was killed.
C6_SoundJustBefore ==
    pc = "reduced" => \A k \in kill_log : ~CanBeActive(k.before, k.edge)

\* C6, amended: after reduce_symmetrization_graph returns, no edge it
\* killed could be active in a satisfying assignment of the clustering CSP
\* over the graph as it was when the test that condemned the edge began
\* (test_component for its component, or clean_components).
C6_SoundWhenTested ==
    pc = "reduced" => \A k \in kill_log : ~CanBeActive(k.tested, k.edge)

\* The reducer returned having killed an edge of a component that kept
\* another edge
C6_Witness ==
    /\ pc = "reduced"
    /\ \E k \in kill_log :
          \E e \in DOMAIN network :
              /\ ~network[e].dead
              /\ {e[1], e[2]} \cap {k.edge[1], k.edge[2]} # {}

\* C10: an edge whose dead flag is true never has it false again, and is in
\* none of living_graph(), active_graph(), inactive_graph(), whatever
\* activate, deactivate, kill, set_activity_level and the reducer do.
C10_DeadForGood ==
    /\ [](\A e \in DOMAIN network :
            network[e].dead =>
                /\ e \notin living_graph(network).edges
                /\ e \notin active_graph(network).edges
                /\ e \notin inactive_graph(network).edges)
    /\ [][\A e \in DOMAIN network :
            network[e].dead => e \in DOMAIN network' /\ network'[e].dead]_vars

\* A dead edge carries active=True and the reducer has run over it
C10_Witness ==
    /\ pc = "reduced"
    /\ \E e \in DOMAIN network : network[e].dead /\ network[e].active
    /\ kill_log # {}

\* C11: activate(i, j), deactivate(i, j) and kill(i, j) called on a pair of
\* NOEs with no edge in the SymGraph fail with an error, and leave the edge
\* set and every edge's active and dead flags as they were.
C11_MissingEdgeFails ==
    [][(/\ pc = "start"
        /\ last_call'.op \in {"activate", "deactivate", "kill"}
        /\ last_call'.arg \notin DOMAIN network)
          => (pc' = "raised" /\ network' = network)]_vars

\* kill has failed on a pair without an edge, in a graph that has an active
\* edge and a dead one
C11_Witness ==
    /\ pc = "raised"
    /\ last_call.op = "kill"
    /\ last_call.arg \notin DOMAIN network
    /\ \E d, e \in DOMAIN network : network[d].active /\ network[e].dead

\* The NOEs of the connected component of n in the graph of the living edges
LivingComponent(n) ==
    Reachable([nodes |-> Noes,
               edges |-> {e \in DOMAIN network : ~network[e].dead}], {n})

\* C12: after set_activity_level(K), every living edge is active if and only
\* if its connected component in the living graph has at most K vertices;
\* the call leaves the dead edges' flags (and the edge set) as they were; a
\* second set_activity_level(K) with the same K changes nothing.
C12_ActivityLevel ==
    /\ [](pc = "start" /\ last_call.op = "set_activity_level" =>
            /\ \A e \in DOMAIN network :
                  ~network[e].dead =>
                     (network[e].active <=>
                        Cardinality(LivingComponent(e[1])) <= last_call.arg)
            /\ set_activity_level(network, last_call.arg) = network)
    /\ [][pc = "start" /\ last_call'.op = "set_activity_level" =>
            /\ DOMAIN network' = DOMAIN network
            /\ \A e \in DOMAIN network :
                  /\ network'[e].dead = network[e].dead
                  /\ network[e].dead => network'[e] = network[e]]_vars

\* set_activity_level(2) has activated the two-NOE components a kill left
\* behind, and the dead edge between them is still inactive
C12_Witness ==
    /\ pc = "start"
    /\ last_call = [op |-> "set_activity_level", arg |-> 2]
    /\ \E d, e \in DOMAIN network :
          /\ network[d].dead /\ ~network[d].active
          /\ ~network[e].dead /\ network[e].active
          /\ Cardinality(LivingComponent(e[1])) = 2

\* The living edges of the SymGraph, and the NOEs at their ends
LivingEdges == {e \in DOMAIN network : ~network[e].dead}
LivingEnds == {e[1] : e \in LivingEdges} \cup {e[2] : e \in LivingEdges}

\* C13 as stated: living_graph() returns the living edges and only the NOEs
\* that are endpoints of at least one living edge; an NOE with no living
\* edge is not a node of the result.
C13_NoIsolatedNodes ==
    /\ living_graph(network).edges = LivingEdges
    /\ living_graph(network).nodes = LivingEnds

\* C13 as amended: living_graph() returns the living edges and every NOE of
\* the SymGraph as a node, those without a living edge included; it is
\* active_graph() and inactive_graph() that hold no isolated NOE.
C13_LivingGraph ==
    /\ living_graph(network).edges = LivingEdges
    /\ living_graph(network).nodes = Noes
    /\ \A g \in {active_graph(network), inactive_graph(network)} :
          /\ g.edges \subseteq LivingEdges
          /\ g.nodes = {e[1] : e \in g.edges} \cup {e[2] : e \in g.edges}

\* A kill has left an NOE without a living edge, and living_graph() still
\* has it as a node
C13_Witness ==
    /\ last_call.op = "kill"
    /\ pc = "start"
    /\ \E n \in Noes :
          /\ \E e \in DOMAIN network : n \in {e[1], e[2]} /\ network[e].dead
          /\ n \notin LivingEnds
          /\ n \in living_graph(network).nodes

\* ------------------------------------------------ NOEs and their graph
\* The NOEs parse_noe_file has kept
Parsed == Range(crosspeaks)

\* The mirrored coordinate pairs an NOE type has, each within its tolerance:
\* the carbons of a CCH or 4D NOE, the protons of an HCH or 4D NOE
MirrorWithin(a, b) ==
    /\ a.type \in {"CCH", "4D"} =>
          /\ Abs(a.c1[1] - b.c2[1]) < SYM_CTOL
          /\ Abs(b.c1[1] - a.c2[1]) < SYM_CTOL
    /\ a.type \in {"HCH", "4D"} =>
          /\ Abs(a.h1[1] - b.h2[1]) < SYM_HTOL
          /\ Abs(b.h1[1] - a.h2[1]) < SYM_HTOL

\* C14: in a freshly constructed SymGraph (built with find_symmetries), two
\* NOEs are joined by an edge if and only if they are symmetric or one of
\* them lists the other in its reciprocals; every initial edge has
\* active = false and dead = false.
C14_InitialEdges ==
    (pc = "graph" /\ last_call.op = "SymGraph" /\ last_call.arg = TRUE) =>
        /\ \A a, b \in Parsed :
              a.label < b.label =>
                 (<<a.label, b.label>> \in DOMAIN network <=>
                     \/ symmetric(a, b)
                     \/ b.label \in a.reciprocals
                     \/ a.label \in b.reciprocals)
        /\ \A e \in DOMAIN network : ~network[e].active /\ ~network[e].dead

\* What SymGraph.__init__ builds: the symmetric pairs are joined only when
\* find_symmetries is set and neither NOE has a known reciprocal
C14_InitialEdgesAsBuilt ==
    (pc = "graph" /\ last_call.op = "SymGraph") =>
        /\ \A a, b \in Parsed :
              a.label < b.label =>
                 (<<a.label, b.label>> \in DOMAIN network <=>
                     \/ b.label \in a.reciprocals
                     \/ a.label \in b.reciprocals
                     \/ /\ last_call.arg
                        /\ a.reciprocals = {} /\ b.reciprocals = {}
                        /\ symmetric(a, b))
        /\ \A e \in DOMAIN network : ~network[e].active /\ ~network[e].dead

C16_ShortRangeApart ==
    \A a, b \in Parsed :
        (a.type = b.type /\ MirrorWithin(a, b)
            /\ a.short_range # b.short_range) => ~symmetric(a, b)

\* The type of a row by the columns it has
RowType(r) ==
    IF Present(r.c1) /\ Present(r.h1) THEN "4D"
    ELSE IF Present(r.c1) THEN "CCH"
    ELSE "HCH"

\* A row with its required columns and the columns of one of the types
WellFormed(r) ==
    Present(r.c2) /\ Present(r.h2) /\ (Present(r.c1) \/ Present(r.h1))

\* A diagonal peak, by the type of the row
RowDiagonal(r) ==
    IF RowType(r) = "CCH" THEN Abs(r.c1[1] - r.c2[1]) < DIAG_CTOL
    ELSE IF RowType(r) = "HCH" THEN Abs(r.h1[1] - r.h2[1]) < DIAG_HTOL
    ELSE Abs(r.c1[1] - r.c2[1]) < DIAG_CTOL /\ Abs(r.h1[1] - r.h2[1]) < DIAG_HTOL

\* C17: NOE construction rejects the diagonal peaks: a CCH NOE iff
\* |c1-c2| < 0.1, an HCH NOE iff |h1-h2| < 0.01, a 4D NOE iff both; a
\* rejected NOE is never in the parsed list, a well-formed NOE that is not
\* diagonal always is.
C17_DiagonalRejected ==
    pc = "parsed" =>
        \A k \in 1..Len(rows) :
            WellFormed(rows[k]) =>
                ((\E n \in Parsed : n.label = rows[k].label)
                    <=> ~RowDiagonal(rows[k]))

\* What parse_noe_file does: it keeps the rows Noe.__init__ raises nothing
\* for, with the type Noe.__init__ gives them (a column holding 0.0 counts
\* as a missing one)
C17_DiagonalRejectedAsTyped ==
    pc = "parsed" =>
        \A k \in 1..Len(rows) :
            (\E n \in Parsed : n.label = rows[k].label)
                <=> Noe(rows[k]).raised = "no"

\* ------------------------------------------------ solve, flush, timeout
\* A step that is a call of the Formula method op
FormulaCall(op) == pc = "formula" /\ last_call'.op = op

\* C18 as stated: solve() leaves the base clauses intact and consumes the
\* auxiliary clauses: after solve() returns, base_clauses is as before the
\* call and aux_clauses is empty; neither solve() nor flush() changes nvars
\* or the variable-meaning table.
C18_SolveConsumesAux ==
    [][/\ (FormulaCall("solve") /\ last_call'.arg = "returned") =>
            /\ formula'.base_clauses = formula.base_clauses
            /\ formula'.aux_clauses = <<>>
       /\ (FormulaCall("solve") \/ FormulaCall("flush")) =>
            /\ formula'.nvars = formula.nvars
            /\ formula'.variable_meaning = formula.variable_meaning]_vars

\* C18 as amended: solve() leaves the base clauses and the auxiliary
\* clauses as they are; it is flush() that empties aux_clauses, leaving
\* base_clauses as they are; neither changes nvars or the variable-meaning
\* table.
C18_SolveKeepsClauses ==
    [][/\ FormulaCall("solve") =>
            /\ formula'.base_clauses = formula.base_clauses
            /\ formula'.aux_clauses = formula.aux_clauses
       /\ FormulaCall("flush") =>
            /\ formula'.base_clauses = formula.base_clauses
            /\ formula'.aux_clauses = <<>>
       /\ (FormulaCall("solve") \/ FormulaCall("flush")) =>
            /\ formula'.nvars = formula.nvars
            /\ formula'.variable_meaning = formula.variable_meaning]_vars

\* solve() has returned on a formula with a base clause and an auxiliary
\* clause, and both are still there
C18_Witness ==
    /\ pc = "formula"
    /\ last_call = [op |-> "solve", arg |-> "returned"]
    /\ formula.base_clauses # <<>>
    /\ formula.aux_clauses # <<>>

\* C19: a solve() call whose solver exceeds the 15-second timeout returns
\* the UNSAT result (an empty model) to its caller, which goes on as for an
\* unsatisfiable formula instead of aborting.
C19_TimeoutIsUnsat ==
    last_call = [op |-> "solve", arg |-> "TimeoutExpired"] =>
        (pc # "raised" /\ result = {})

\* C20: an iteration of gibbs_reduce that does not raise leaves the loop for
\* enumerate() exactly when it nailed no vertex: it stops at the first
\* iteration that nails nothing, and goes on after every iteration that
\* nailed at least one vertex.
C20_StopsWhenNothingNailed ==
    [][(pc = "sampling" /\ pc' # "raised")
          => ((pc' = "built") <=> (unnailed' = unnailed))]_vars

\* What the comparison of gibbs_reduce does: the loop is left exactly when
\* the iteration nailed as many vertices as the one before it.
C20_StopsAsBuilt ==
    [][(pc = "sampling" /\ pc' # "raised")
          => ((pc' = "built")
                <=> (Cardinality(unnailed \ unnailed') = old_percent_nailed))]_vars

\* C21: once a call of sample() has ended, by returning or by raising, none of
\* the files it wrote is left under /tmp.
C21_FilesDeleted ==
    pc \in {"sampler", "raised"} => tmp_files = {}

\* What sample() does keep: a call that returns leaves no file behind.
C21_FilesDeletedOnReturn ==
    pc = "sampler" => tmp_files = {}

\* C22: once ClusteringCSP is built, the short flag its distance constraints
\* were given for an edge (i, j) of the active graph is true exactly when NOE i
\* or NOE j is short-range, whichever of the two the edge lists first.
C22_ShortEitherEnd ==
    pc \in {"built", "solved"} =>
        \A e \in active_graph(network).edges :
            EdgeShort(e[1], e[2])
                <=> (noes[e[1]].short_range \/ noes[e[2]].short_range)

\* What the code takes: the flag of the endpoint the edge lists first.
C22_ShortFirstEnd ==
    pc \in {"built", "solved"} =>
        \A e \in active_graph(network).edges :
            EdgeShort(e[1], e[2]) <=> noes[e[1]].short_range

\* C23: every edge of a SignatureGraph carries the attribute short, equal to
\* the OR of the short_range flags of the two NOEs it comes from, and
\* IsomorphismCSP can be built on the graph without failing on the attribute.
C23_EdgesCarryShort ==
    last_call.op \in {"SignatureGraph", "IsomorphismCSP"} =>
        /\ pc # "raised"
        /\ \A e \in DOMAIN graph_h :
              /\ "short" \in DOMAIN graph_h[e]
              /\ \A x \in PairedEdges(network) :
                    SigEdge(clustering[x[1]], clustering[x[2]]) = e
                        => graph_h[e].short = (noes[x[1]].short_range
                                                 \/ noes[x[2]].short_range)

\* What SignatureGraph does give its edges: the attribute geminal, and no other.
C23_EdgesCarryGeminal ==
    last_call.op \in {"SignatureGraph", "IsomorphismCSP"} =>
        \A e \in DOMAIN graph_h : DOMAIN graph_h[e] = {"geminal"}

\* The models of the emitted clauses that give the literals of lits the truth
\* values of amo.true
AmoExtensions ==
    {M \in SatisfyingAssignments(formula) : M \cap (1..amo.n) = amo.true}

\* The clauses "[-cmdr] + group" that define the commanders
AmoCommanderClauses ==
    {cl \in Range(formula.base_clauses) :
        /\ cl[1] < 0
        /\ formula.variable_meaning[-cl[1]][1] = CMD_VAR
        /\ \A k \in 2..Len(cl) : cl[k] > 0}

\* C24: after at_most_one(lits), an assignment of the literals extends to a
\* model of the emitted clauses exactly when it makes at most one of them true;
\* the extension is unique, and in it every commander is true exactly when a
\* literal of its group is; every commander has its defining clause.
C24_AtMostOne ==
    pc = "encoded" =>
        /\ (AmoExtensions # {}) <=> (Cardinality(amo.true) <= 1)
        /\ Cardinality(AmoExtensions) <= 1
        /\ \A v \in (amo.n + 1)..formula.nvars :
              \E cl \in AmoCommanderClauses : cl[1] = -v
        /\ \A M \in AmoExtensions : \A cl \in AmoCommanderClauses :
              (-cl[1] \in M) <=> (\E k \in 2..Len(cl) : cl[k] \in M)

\* at_most_one has encoded ten literals, with commanders of commanders, and
\* the assignment that makes only the last literal true extends to a model
C24_Witness ==
    /\ pc = "encoded"
    /\ amo.n = 10
    /\ amo.true = {10}
    /\ AmoExtensions # {}
    /\ formula.nvars > amo.n + 4

\* The network each matching trial of test_component(component, net) starts
\* from, and the one the call ends with
TrialStarts(component, net) ==
    LET matchings == max_matchings(component)
    IN {Fold(TestMatching,
             [unseen |-> component.edges, net |-> net, raised |-> FALSE],
             SubSeq(matchings, 1, k)).net : k \in 0..Len(matchings)}

\* C25: a call of test_component on a component of the inactive graph that
\* returns leaves every edge with the active and dead flags it had before the
\* call, and every matching trial of the call starts from those flags, so that
\* at each SAT query only the matching under trial is active beyond the edges
\* that were active before.
C25_ActivationRestored ==
    [][(pc = "component" /\ components # <<>> /\ pc' # "raised")
          => /\ network' = network
             /\ TrialStarts(Head(components), network) = {network}]_vars

\* test_component has returned from a component with a matching to try, with
\* edges to kill, and the network is as it was before the call
C25_Witness ==
    /\ pc = "killing"
    /\ tested = network
    /\ unseen # {}
    /\ \E e \in DOMAIN network : ~network[e].active /\ ~network[e].dead
    /\ \E e \in DOMAIN network : network[e].active

\* The edges of the inactive graph (living, not active)
InactiveEdges == inactive_graph(network).edges

\* C26: when the main loop of reduce_symmetrization_graph exits (the pass ran
\* out of components and clean_components is entered), every living inactive
\* edge is in a maximum-cardinality matching of its current component whose
\* activation keeps the clustering CSP satisfiable.
C26_CleanPass ==
    [][(pc = "component" /\ components = <<>> /\ pc' # "component")
          => \A e \in InactiveEdges : CanBeActive(network, e)]_vars

\* The edges killed so far
DeadEdges == {e \in DOMAIN network : network[e].dead}

\* Ascending in the number of nodes
AscendingSize(list) ==
    \A x \in 1..Len(list) : \A y \in x..Len(list) :
       Cardinality(list[x].nodes) <= Cardinality(list[y].nodes)

\* C27: reduce_symmetrization_graph terminates: a call that has begun comes
\* to its return (or to an exception); every pass takes the inactive
\* components in ascending size; the pass is restarted only when the kills
\* of a component and the reset of the activity level left more active edges
\* than there were before them; and the restarts never outnumber the edges
\* killed, hence the edges.
C27_Terminates ==
    /\ (pc = "pass") ~> (pc \in {"reduced", "raised"})
    /\ [][(pc = "pass") => AscendingSize(components')]_vars
    /\ [][(pc = "killing" /\ pc' = "pass")
             => ActiveEdges(network') > ActiveEdges(tested)]_vars
    /\ [](iteration_no >= 1
             => /\ iteration_no - 1 <= Cardinality(DeadEdges)
                /\ iteration_no - 1 <= Cardinality(DOMAIN network))

\* A call that restarted its pass has returned
C27_Witness ==
    /\ pc = "reduced"
    /\ iteration_no >= 2

\* C28: whatever has been called on a Formula, nclauses is
\* len(base_clauses) + len(aux_clauses), and the clause count in the header
\* to_string writes is the number of clause lines it writes after it.
C28_ClauseCount ==
    /\ formula.nclauses = Len(formula.base_clauses) + Len(formula.aux_clauses)
    /\ to_string(formula).header[4] = Len(to_string(formula).body)

\* flush has just run on a formula that keeps a base clause
C28_Witness ==
    /\ last_call.op = "flush"
    /\ formula.base_clauses # <<>>
    /\ formula.aux_clauses = <<>>

\* C29: in every satisfying assignment of ClusteringCSP the two NOEs of an
\* activated edge are clustered to two distinct signatures.
C29_DistinctSignatures ==
    Solved => \A e \in Activated :
                 \A si \in ClusteredTo(e[1]) : \A sj \in ClusteredTo(e[2]) :
                    si # sj

\* The network is at the activity level MAX_COMP_SIZE: a living edge is
\* active exactly when its living component has at most MAX_COMP_SIZE NOEs
AtActivityLevel(net) ==
    LET living == [nodes |-> Noes, edges |-> {e \in DOMAIN net : ~net[e].dead}]
    IN \A e \in DOMAIN net :
          ~net[e].dead =>
             (net[e].active <=>
                Cardinality(Reachable(living, {e[1]})) <= MAX_COMP_SIZE)

\* reduce_symmetrization_graph was called on a network at the activity level
CalledAtActivityLevel ==
    /\ last_call.op = "reduce_symmetrization_graph"
    /\ AtActivityLevel(last_call.arg)

\* C30, as stated: a network that is at the activity level MAX_COMP_SIZE when
\* reduce_symmetrization_graph is called is at that level at every point of
\* the call between two matching trials, the kills of a component included,
\* and when the call returns.
C30_AtEveryPoint ==
    (CalledAtActivityLevel
        /\ pc \in {"pass", "component", "killing", "cleaning", "reduced"})
       => AtActivityLevel(network)

\* C30, amended: a network that is at the activity level MAX_COMP_SIZE when
\* reduce_symmetrization_graph is called is at that level again whenever a
\* pass or the trials of a component are about to begin (the kills of a
\* component take it off the level until set_activity_level has run), all
\* through clean_components, and when the call returns.
C30_ActivityLevelKept ==
    (CalledAtActivityLevel
        /\ pc \in {"pass", "component", "cleaning", "reduced"})
       => AtActivityLevel(network)

\* The call was made at the activity level, clean_components has killed an
\* active edge, and the call has returned
C30_Witness ==
    /\ CalledAtActivityLevel
    /\ pc = "reduced"
    /\ \E k \in kill_log : k.before[k.edge].active

====
